---- MODULE Spec2Model ----
(***************************************************************************)
(* Model of the multiplexed blobstore of Mononoke                          *)
(* (eden/mononoke/blobstore/multiplexedblob/src/base.rs): the fan-out of   *)
(* put, get, is_present and scrub_get over the configured blobstores, the  *)
(* reducer loops that consume the per-blobstore results in arrival order,  *)
(* and the work that is detached with tokio::spawn when an operation       *)
(* returns early; and of the SQL blobstore sync queue                      *)
(* (eden/mononoke/blobstore_sync_queue/src/lib.rs).                        *)
(***************************************************************************)
EXTENDS Naturals, Integers, Sequences, FiniteSets, Bags, TLC

(***************************************************************************)
(* Bounds of the model.                                                    *)
(***************************************************************************)
\* largest number of blobstores in a multiplex configuration
NumBackends == 3
\* largest number of per-blobstore put tasks over all put calls of a run
MaxPutTasks == 4
\* largest number of rows ever inserted into the blobstore_sync_queue table
MaxRows == 2
\* largest number of entries handed to add_many over all calls of a run
MaxEntries == 3
\* WRITE_BUFFER_SIZE, the largest batch of the worker: 5000 in the source, scaled
\* down so that the calls of a run can fill more than one batch
WRITE_BUFFER_SIZE == 2
\* largest number of entries handed to a del call
MaxDelEntries == 3
\* the chunk size of del: 10_000 in the source, scaled down so that the entries of
\* a del call can fill more than one chunk
DeleteChunkSize == 2

PutIds == 1..MaxPutTasks

\* the blob keys and blob contents the callers use
Keys == {"k"}
Bytes == {"a", "b"}
\* ctime metadata a blobstore may attach to a value (0: no ctime)
Ctimes == {0, 7}

\* the multiplex_id of the configuration
multiplex_id == 1

VARIABLES
    \* ---- configuration (MultiplexedBlobstoreBase) ----
    blobstores,       \* sequence of BlobstoreIds, in configuration order
    unresponsive,     \* slots whose blobstore does not answer within REQUEST_TIMEOUT
    \* ---- put: one entry per put call p ----
    put_pc,           \* "idle" | "running" | "returned"
    put_key,          \* the blob key of the call
    operation_key,    \* OperationKey generated by the call (0: none yet)
    puts,             \* slots whose inner_put future is in the reducer's `puts`
    handlers,         \* slots whose on_put future is in the reducer's `handlers`
    last_err,         \* the reducer's last_err
    put_result,       \* what the call returned
    spawned_puts,     \* slots in the detached puts.and_then(..) stream
    and_then_fut,     \* slot whose handler the detached and_then awaits (0: none)
    spawned_handlers, \* slots in the detached handlers stream
    write_order,      \* the AtomicUsize shared by the inner_put tasks of a call
    \* ---- put: what happened (observation of the environment) ----
    inner_put_res,    \* per call and slot: "pending" | "ok" | "err" | "timeout"
    put_stats,        \* per call and slot: write order recorded by record_put_stats
    on_put_calls,     \* per call and slot: the arguments of each on_put invocation
    on_put_res,       \* per call and slot: "none" | "queued" | "running" | "ok" | "err"
    err_seen,         \* per call: errors consumed by the reducer, in arrival order
    \* ---- get (blobstore_get): one call ----
    get_pc,           \* "idle" | "running" | "returned"
    is_logged,        \* scuba.sampling().is_logged() of the call
    requests,         \* slots whose multiplexed_get_one future is in `requests`
    errors,           \* the reducer's map BlobstoreId -> Error
    get_result,       \* what the call returned
    spawned_requests, \* slots in the detached requests stream
    get_res,          \* per slot: ReplyPending, ReplyDropped or the blobstore's reply
    get_arrival,      \* slots in the order the reducer consumed their results
    \* ---- is_present: one call ----
    present_pc,       \* "idle" | "running" | "returned"
    present_requests, \* slots whose is_present future is in `requests`
    present_errors,   \* the reducer's map BlobstoreId -> Error
    present_result,   \* what the call returned
    present_res,      \* per slot: "pending", "dropped" or the reply of the blobstore
    present_arrival,  \* slots in the order the reducer consumed their results
    \* ---- scrub_get: one call ----
    scrub_pc,         \* "idle" | "running" | "returned"
    scrub_requests,   \* slots whose multiplexed_get_one future join_all still awaits
    scrub_res,        \* per slot: ReplyPending or the blobstore's reply
    scrub_order,      \* the blobstore ids in the order the loop over `successes` saw them
    scrub_result,     \* what the call returned
    \* ---- SqlBlobstoreSyncQueue ----
    rows,             \* the rows of the table blobstore_sync_queue
    next_id,          \* the next value of the table's auto-increment column id
    iter_args,        \* the arguments of the last iter call (IterNone: no call yet)
    iter_result,      \* the entries the last iter call returned
    inserted,         \* every row an INSERT has written so far
    workers,          \* number of worker tasks spawned by ensure_worker_scheduled
    add_pc,           \* per add_many call: "idle", "sending", "waiting", "done"
    add_entries,      \* per add_many call: the entries it was given
    signals,          \* per add_many call and entry: what its oneshot receiver holds
    add_result,       \* per add_many call: what it returned
    channel,          \* the (sender, entry) pairs in the unbounded channel
    arrived,          \* every (sender, entry) pair in the order it entered the channel
    batches,          \* the batches the worker took, with the outcome of their insert
    del_pc,           \* "idle", "deleting", "done"
    del_entries,      \* the entries the del call was given
    del_stmts,        \* the DeleteEntries statements the del call issued
    del_result,       \* what the del call returned
    sq_get_key,       \* the key of the last get call on the queue (NoKey: no call yet)
    sq_get_result,    \* the entries the last get call on the queue returned
    \* ---- collaborators ----
    uuids,            \* number of UUIDs handed out by Uuid::new_v4
    queue             \* bag of the rows of the blobstore sync queue

cfgvars == <<blobstores, unresponsive>>
putvars == <<put_pc, put_key, operation_key, puts, handlers, last_err, put_result,
             spawned_puts, and_then_fut, spawned_handlers, write_order>>
putobs == <<inner_put_res, put_stats, on_put_calls, on_put_res, err_seen>>
getvars == <<get_pc, is_logged, requests, errors, get_result, spawned_requests,
             get_res, get_arrival>>
presentvars == <<present_pc, present_requests, present_errors, present_result,
                 present_res, present_arrival>>
scrubvars == <<scrub_pc, scrub_requests, scrub_res, scrub_order, scrub_result>>
sqlvars == <<rows, next_id, inserted, iter_args, iter_result>>
workervars == <<workers, add_pc, add_entries, signals, add_result, channel, arrived, batches>>
delvars == <<del_pc, del_entries, del_stmts, del_result, sq_get_key, sq_get_result>>
queuevars == <<sqlvars, workervars, delvars>>
envvars == <<uuids, queue>>
vars == <<cfgvars, putvars, putobs, getvars, presentvars, scrubvars, queuevars, envvars>>
\* what the steps of one operation leave alone
nonputvars == <<getvars, presentvars, scrubvars, queuevars>>
nongetvars == <<putvars, putobs, presentvars, scrubvars, queuevars, envvars>>
nonpresentvars == <<putvars, putobs, getvars, scrubvars, queuevars, envvars>>
nonscrubvars == <<putvars, putobs, getvars, presentvars, queuevars, envvars>>
nonqueuevars == <<cfgvars, putvars, putobs, getvars, presentvars, scrubvars, envvars>>
nonsqlvars == <<nonqueuevars, workervars, delvars>>

(***************************************************************************)
(* Values.                                                                 *)
(***************************************************************************)
\* Option<Error>::None
NoError == [kind |-> "none", id |-> 0]
\* an error returned by a call (put, get, is_present) to blobstore `id`
BlobstoreError(id) == [kind |-> "blobstore failed", id |-> id]
\* the error remap_timeout_result makes of an elapsed deadline
TimeoutError == [kind |-> "blobstore operation timeout", id |-> 0]
\* an error returned by on_put for blobstore `id`
HandlerError(id) == [kind |-> "on_put failed", id |-> id]

Slots == 1..Len(blobstores)
SlotRange == 1..NumBackends

\* remap_timeout_result applied to the outcome of timeout(REQUEST_TIMEOUT, put)
remap_timeout_result(id, outcome) ==
    CASE outcome = "ok" -> NoError
      [] outcome = "err" -> BlobstoreError(id)
      [] outcome = "timeout" -> TimeoutError

\* mutant: the call is awaited without a deadline
timeout_Unbounded(i, elapsed) == ~elapsed /\ i \notin unresponsive
\* timeout(REQUEST_TIMEOUT, f) around the call f to the blobstore of slot i: the
\* deadline elapses exactly when the blobstore does not answer in time
timeout(i, elapsed) == elapsed <=> i \in unresponsive

\* mutant: every call gets the nil UUID instead of a fresh one
OperationKeyGen_Nil(n) == 0
\* OperationKey::gen: a version 4 UUID; the n-th UUID drawn is modelled as n
OperationKeyGen(n) == n + 1

Pending == [tag |-> "pending", err |-> NoError]
RetOk == [tag |-> "Ok", err |-> NoError]
RetErr(e) == [tag |-> "Err", err |-> e]
RetPanic == [tag |-> "panic", err |-> NoError]

(***************************************************************************)
(* put: the per-blobstore tasks.                                           *)
(***************************************************************************)
\* mutant: the write order is read from the counter without advancing it
inner_put_Load(p, i, outcome) ==
    /\ timeout(i, outcome = "timeout")
    /\ write_order' = write_order
    /\ put_stats' = [put_stats EXCEPT ![p][i] = write_order[p] + 1]
    /\ inner_put_res' = [inner_put_res EXCEPT ![p][i] = outcome]

\* inner_put of call p on slot i completes with `outcome`: the write order is
\* drawn from the shared counter and recorded with the result
inner_put(p, i, outcome) ==
    /\ timeout(i, outcome = "timeout")
    /\ write_order' = [write_order EXCEPT ![p] = @ + 1]
    /\ put_stats' = [put_stats EXCEPT ![p][i] = write_order[p] + 1]
    /\ inner_put_res' = [inner_put_res EXCEPT ![p][i] = outcome]

\* the arguments the handler future of call p and slot i passes to on_put
OnPutArgs(p, i) ==
    [blobstore_id |-> blobstores[i], multiplex_id |-> multiplex_id,
     operation_key |-> operation_key[p], key |-> put_key[p]]

\* the row the default put handler records for an on_put invocation
QueueRow(args) ==
    [blobstore_key |-> args.key, blobstore_id |-> args.blobstore_id,
     multiplex_id |-> args.multiplex_id, operation_key |-> args.operation_key]

\* the handler future of call p and slot i is polled for the first time
on_put_start(p, i) ==
    /\ on_put_calls' = [on_put_calls EXCEPT ![p][i] = Append(@, OnPutArgs(p, i))]
    /\ on_put_res' = [on_put_res EXCEPT ![p][i] = "running"]

\* on_put of call p and slot i completes: on success the row is in the queue
on_put_finish(p, i, outcome) ==
    /\ on_put_res' = [on_put_res EXCEPT ![p][i] = outcome]
    /\ queue' = IF outcome = "ok"
                THEN queue (+) SetToBag({QueueRow(on_put_calls[p][i][1])})
                ELSE queue

(***************************************************************************)
(* put: the reducer (the loop over select_next).                           *)
(***************************************************************************)
\* select_next on pools ps and hs yields None, and the loop ends
select_next_none(ps, hs) == ps = {} /\ hs = {}

\* the end of the loop: Err(last_err.unwrap())
LoopEnd(le) == IF le = NoError THEN RetPanic ELSE RetErr(le)

\* the reducer goes on with pools ps, hs and last error le
Continue(p, ps, hs, le) ==
    /\ puts' = [puts EXCEPT ![p] = ps]
    /\ handlers' = [handlers EXCEPT ![p] = hs]
    /\ last_err' = [last_err EXCEPT ![p] = le]
    /\ IF select_next_none(ps, hs)
       THEN /\ put_pc' = [put_pc EXCEPT ![p] = "returned"]
            /\ put_result' = [put_result EXCEPT ![p] = LoopEnd(le)]
       ELSE UNCHANGED <<put_pc, put_result>>
    /\ UNCHANGED <<spawned_puts, spawned_handlers>>

\* the reducer returns Ok(()) after spawning the streams sp (puts) and sh (handlers)
ReturnOk(p, sp, sh) ==
    /\ put_pc' = [put_pc EXCEPT ![p] = "returned"]
    /\ put_result' = [put_result EXCEPT ![p] = RetOk]
    /\ puts' = [puts EXCEPT ![p] = {}]
    /\ handlers' = [handlers EXCEPT ![p] = {}]
    /\ spawned_puts' = [spawned_puts EXCEPT ![p] = sp]
    /\ spawned_handlers' = [spawned_handlers EXCEPT ![p] = sh]
    /\ UNCHANGED last_err

\* mutant: the loop goes on after the last successful put
LeftOk_Continue(p, i) ==
    /\ on_put_res' = [on_put_res EXCEPT ![p][i] = "queued"]
    /\ Continue(p, puts[p] \ {i}, handlers[p] \cup {i}, last_err[p])
    /\ UNCHANGED err_seen

\* Left(Ok(handler)): the put of slot i succeeded
LeftOk(p, i) ==
    /\ on_put_res' = [on_put_res EXCEPT ![p][i] = "queued"]
    /\ IF puts[p] \ {i} = {} /\ last_err[p] = NoError
       THEN ReturnOk(p, {}, handlers[p] \cup {i})
       ELSE Continue(p, puts[p] \ {i}, handlers[p] \cup {i}, last_err[p])
    /\ UNCHANGED err_seen

\* mutant: only the first error is kept
LeftErr_KeepFirst(p, i, e) ==
    /\ err_seen' = [err_seen EXCEPT ![p] = Append(@, e)]
    /\ Continue(p, puts[p] \ {i}, handlers[p],
                IF last_err[p] = NoError THEN e ELSE last_err[p])
    /\ UNCHANGED on_put_res

\* Left(Err(e)): the put of slot i failed
LeftErr(p, i, e) ==
    /\ err_seen' = [err_seen EXCEPT ![p] = Append(@, e)]
    /\ Continue(p, puts[p] \ {i}, handlers[p], e)
    /\ UNCHANGED on_put_res

\* mutant: a successful handler does not end the loop
RightOk_KeepWaiting(p, i) ==
    /\ Continue(p, puts[p], handlers[p] \ {i}, last_err[p])
    /\ UNCHANGED err_seen

\* mutant: the remaining puts and handlers are dropped instead of spawned
RightOk_Cancel(p, i) ==
    /\ ReturnOk(p, {}, {})
    /\ UNCHANGED err_seen

\* Right(Ok(())): the handler of slot i succeeded
RightOk(p, i) ==
    /\ ReturnOk(p, puts[p], handlers[p] \ {i})
    /\ UNCHANGED err_seen

\* mutant: the error of a handler is not remembered
RightErr_Forgotten(p, i, e) ==
    /\ err_seen' = [err_seen EXCEPT ![p] = Append(@, e)]
    /\ Continue(p, puts[p], handlers[p] \ {i}, last_err[p])

\* Right(Err(e)): the handler of slot i failed
RightErr(p, i, e) ==
    /\ err_seen' = [err_seen EXCEPT ![p] = Append(@, e)]
    /\ Continue(p, puts[p], handlers[p] \ {i}, e)

(***************************************************************************)
(* put: the steps.                                                         *)
(***************************************************************************)
Started == {p \in PutIds : put_pc[p] # "idle"}

\* MultiplexedBlobstoreBase::put is called with key k, and its future is polled
Put(p, k) ==
    /\ put_pc[p] = "idle"
    /\ p = Cardinality(Started) + 1
    /\ p * Len(blobstores) <= MaxPutTasks
    /\ put_key' = [put_key EXCEPT ![p] = k]
    /\ operation_key' = [operation_key EXCEPT ![p] = OperationKeyGen(uuids)]
    /\ uuids' = uuids + 1
    /\ IF select_next_none(Slots, {})
       THEN /\ put_pc' = [put_pc EXCEPT ![p] = "returned"]
            /\ put_result' = [put_result EXCEPT ![p] = LoopEnd(NoError)]
            /\ UNCHANGED puts
       ELSE /\ put_pc' = [put_pc EXCEPT ![p] = "running"]
            /\ puts' = [puts EXCEPT ![p] = Slots]
            /\ UNCHANGED put_result
    /\ UNCHANGED <<cfgvars, nonputvars, handlers, last_err, spawned_puts, and_then_fut,
                   spawned_handlers, write_order, putobs, queue>>

\* puts.next() yields the result of slot i to the reducer
PutsNext(p, i, outcome) ==
    /\ put_pc[p] = "running"
    /\ i \in puts[p]
    /\ inner_put(p, i, outcome)
    /\ IF outcome = "ok"
       THEN LeftOk(p, i)
       ELSE LeftErr(p, i, remap_timeout_result(blobstores[i], outcome))
    /\ UNCHANGED <<cfgvars, nonputvars, put_key, operation_key, and_then_fut, on_put_calls,
                   envvars>>

\* a handler future in `handlers` or in the detached handlers stream is polled
\* for the first time
HandlerPoll(p, i) ==
    /\ i \in handlers[p] \cup spawned_handlers[p]
    /\ on_put_res[p][i] = "queued"
    /\ on_put_start(p, i)
    /\ UNCHANGED <<cfgvars, nonputvars, putvars, inner_put_res, put_stats, err_seen, envvars>>

\* handlers.next() yields the result of slot i to the reducer
HandlersNext(p, i, outcome) ==
    /\ put_pc[p] = "running"
    /\ i \in handlers[p]
    /\ on_put_res[p][i] = "running"
    /\ on_put_finish(p, i, outcome)
    /\ IF outcome = "ok"
       THEN RightOk(p, i)
       ELSE RightErr(p, i, HandlerError(blobstores[i]))
    /\ UNCHANGED <<cfgvars, nonputvars, put_key, operation_key, and_then_fut, write_order,
                   inner_put_res, put_stats, on_put_calls, uuids>>

\* mutant: the detached stream is `puts` alone, the handlers it yields are dropped
SpawnedPutsNext_NoAndThen(p, i, outcome) ==
    /\ i \in spawned_puts[p]
    /\ inner_put(p, i, outcome)
    /\ spawned_puts' = [spawned_puts EXCEPT ![p] = @ \ {i}]
    /\ UNCHANGED <<cfgvars, nonputvars, put_pc, put_key, operation_key, puts, handlers,
                   last_err, put_result, and_then_fut, spawned_handlers, on_put_calls,
                   on_put_res, err_seen, envvars>>

\* the detached puts.and_then(|handler| handler) takes the result of slot i; on
\* success it starts awaiting the handler the result carries
SpawnedPutsNext(p, i, outcome) ==
    /\ i \in spawned_puts[p]
    /\ and_then_fut[p] = 0
    /\ inner_put(p, i, outcome)
    /\ spawned_puts' = [spawned_puts EXCEPT ![p] = @ \ {i}]
    /\ IF outcome = "ok"
       THEN /\ and_then_fut' = [and_then_fut EXCEPT ![p] = i]
            /\ on_put_start(p, i)
       ELSE UNCHANGED <<and_then_fut, on_put_calls, on_put_res>>
    /\ UNCHANGED <<cfgvars, nonputvars, put_pc, put_key, operation_key, puts, handlers, last_err,
                   put_result, spawned_handlers, err_seen, envvars>>

\* the handler awaited by the detached and_then completes
AndThenNext(p, outcome) ==
    /\ and_then_fut[p] # 0
    /\ on_put_finish(p, and_then_fut[p], outcome)
    /\ and_then_fut' = [and_then_fut EXCEPT ![p] = 0]
    /\ UNCHANGED <<cfgvars, nonputvars, put_pc, put_key, operation_key, puts, handlers, last_err,
                   put_result, spawned_puts, spawned_handlers, write_order,
                   inner_put_res, put_stats, on_put_calls, err_seen, uuids>>

\* a handler of the detached handlers stream completes
SpawnedHandlersNext(p, i, outcome) ==
    /\ i \in spawned_handlers[p]
    /\ on_put_res[p][i] = "running"
    /\ on_put_finish(p, i, outcome)
    /\ spawned_handlers' = [spawned_handlers EXCEPT ![p] = @ \ {i}]
    /\ UNCHANGED <<cfgvars, nonputvars, put_pc, put_key, operation_key, puts, handlers, last_err,
                   put_result, spawned_puts, and_then_fut, write_order,
                   inner_put_res, put_stats, on_put_calls, err_seen, uuids>>

PutOutcomes == {"ok", "err", "timeout"}
HandlerOutcomes == {"ok", "err"}

\* MultiplexedBlobstoreBase::new with n blobstores (ids in configuration order)
new(n) == blobstores = [i \in 1..n |-> i]

InitPut ==
    /\ put_pc = [p \in PutIds |-> "idle"]
    /\ put_key = [p \in PutIds |-> "k"]
    /\ operation_key = [p \in PutIds |-> 0]
    /\ puts = [p \in PutIds |-> {}]
    /\ handlers = [p \in PutIds |-> {}]
    /\ last_err = [p \in PutIds |-> NoError]
    /\ put_result = [p \in PutIds |-> Pending]
    /\ spawned_puts = [p \in PutIds |-> {}]
    /\ and_then_fut = [p \in PutIds |-> 0]
    /\ spawned_handlers = [p \in PutIds |-> {}]
    /\ write_order = [p \in PutIds |-> 0]
    /\ inner_put_res = [p \in PutIds |-> [i \in SlotRange |-> "pending"]]
    /\ put_stats = [p \in PutIds |-> [i \in SlotRange |-> 0]]
    /\ on_put_calls = [p \in PutIds |-> [i \in SlotRange |-> <<>>]]
    /\ on_put_res = [p \in PutIds |-> [i \in SlotRange |-> "none"]]
    /\ err_seen = [p \in PutIds |-> <<>>]
    /\ uuids = 0
    /\ queue = EmptyBag

\* the steps of the reducer of call p and of its detached tasks
PutProgress(p) ==
    \/ \E i \in SlotRange, o \in PutOutcomes : PutsNext(p, i, o)
    \/ \E i \in SlotRange : HandlerPoll(p, i)
    \/ \E i \in SlotRange, o \in HandlerOutcomes : HandlersNext(p, i, o)
    \/ \E i \in SlotRange, o \in PutOutcomes : SpawnedPutsNext(p, i, o)
    \/ \E o \in HandlerOutcomes : AndThenNext(p, o)
    \/ \E i \in SlotRange, o \in HandlerOutcomes : SpawnedHandlersNext(p, i, o)

NextPut ==
    \/ \E p \in PutIds, k \in Keys : Put(p, k)
    \/ \E p \in PutIds : PutProgress(p)

(***************************************************************************)
(* get (blobstore_get).                                                    *)
(***************************************************************************)
\* BlobstoreGetData: the bytes and the ctime metadata (0: None)
GetData(b, c) == [bytes |-> b, ctime |-> c]
NoData == GetData("", 0)
\* BlobstoreGetData::remove_ctime
remove_ctime(value) == [value EXCEPT !.ctime = 0]

\* what a blobstore answers to get within the deadline, or "Timeout"
GetReplies ==
    {[tag |-> "Some", value |-> GetData(b, c)] : b \in Bytes, c \in Ctimes}
        \cup {[tag |-> t, value |-> NoData] : t \in {"None", "Err", "Timeout"}}

\* no reply yet, and the reply that never comes because the future was dropped
ReplyPending == [tag |-> "pending", value |-> NoData]
ReplyDropped == [tag |-> "dropped", value |-> NoData]

\* multiplexed_get_one on slot i when the blobstore answers `reply`
multiplexed_get_one(i, reply) ==
    [blobstore_id |-> blobstores[i],
     tag |-> IF reply.tag = "Timeout" THEN "Err" ELSE reply.tag,
     value |-> reply.value,
     err |-> CASE reply.tag = "Timeout" -> remap_timeout_result(blobstores[i], "timeout")
               [] reply.tag = "Err" -> remap_timeout_result(blobstores[i], "err")
               [] OTHER -> NoError]

\* HashMap::insert
MapInsert(m, k, v) == (k :> v) @@ m
EmptyMap == <<>>

GetPending == [tag |-> "pending", value |-> NoData, errors |-> EmptyMap]
GetOkSome(v) == [tag |-> "OkSome", value |-> v, errors |-> EmptyMap]
GetOkNone == [tag |-> "OkNone", value |-> NoData, errors |-> EmptyMap]
AllFailed(errs) == [tag |-> "AllFailed", value |-> NoData, errors |-> errs]
SomeFailedOthersNone(errs) ==
    [tag |-> "SomeFailedOthersNone", value |-> NoData, errors |-> errs]

\* mutant: any error is reported as AllFailed
GetDrained_AnyError(errs, blobstores_count) ==
    IF DOMAIN errs = {} THEN GetOkNone ELSE AllFailed(errs)

\* the result of blobstore_get once `requests` is drained without a value
GetDrained(errs, blobstores_count) ==
    IF DOMAIN errs = {}
    THEN GetOkNone
    ELSE IF Cardinality(DOMAIN errs) = blobstores_count
         THEN AllFailed(errs)
         ELSE SomeFailedOthersNone(errs)

\* the reducer goes on with requests rs and errors errs
GetContinue(rs, errs) ==
    /\ requests' = rs
    /\ errors' = errs
    /\ IF rs = {}
       THEN /\ get_pc' = "returned"
            /\ get_result' = GetDrained(errs, Len(blobstores))
       ELSE UNCHANGED <<get_pc, get_result>>
    /\ UNCHANGED spawned_requests

\* mutant: the remaining requests are dropped whether or not the call is sampled
GetSome_Drop(i, value) ==
    /\ get_pc' = "returned"
    /\ get_result' = GetOkSome(remove_ctime(value))
    /\ requests' = {}
    /\ spawned_requests' = {}
    /\ get_res' = [j \in SlotRange |->
                     IF j = i THEN [tag |-> "Some", value |-> value]
                     ELSE IF j \in requests THEN ReplyDropped
                     ELSE get_res[j]]
    /\ UNCHANGED errors

\* (_, Ok(Some(value))): the value of slot i won the race
GetSome(i, value) ==
    /\ get_pc' = "returned"
    /\ get_result' = GetOkSome(remove_ctime(value))
    /\ requests' = {}
    /\ spawned_requests' = IF is_logged THEN requests \ {i} ELSE {}
    /\ get_res' = [j \in SlotRange |->
                     IF j = i THEN [tag |-> "Some", value |-> value]
                     ELSE IF j \in requests /\ ~is_logged THEN ReplyDropped
                     ELSE get_res[j]]
    /\ UNCHANGED errors

\* mutant: the first error ends the read
GetErr_ShortCircuit(i, id, e) ==
    /\ get_pc' = "returned"
    /\ get_result' = SomeFailedOthersNone(MapInsert(errors, id, e))
    /\ requests' = {}
    /\ errors' = MapInsert(errors, id, e)
    /\ UNCHANGED spawned_requests

\* (blobstore_id, Err(error))
GetErr(i, id, e) == GetContinue(requests \ {i}, MapInsert(errors, id, e))

\* mutant: the first None ends the read
GetNone_Return(i) ==
    /\ get_pc' = "returned"
    /\ get_result' = GetOkNone
    /\ requests' = {}
    /\ UNCHANGED <<errors, spawned_requests>>

\* (_, Ok(None))
GetNone(i) == GetContinue(requests \ {i}, errors)

\* MultiplexedBlobstoreBase::get is called, and its future is polled
Get(logged) ==
    /\ get_pc = "idle"
    /\ is_logged' = logged
    /\ requests' = Slots
    /\ IF Slots = {}
       THEN /\ get_pc' = "returned"
            /\ get_result' = GetDrained(EmptyMap, Len(blobstores))
       ELSE /\ get_pc' = "running"
            /\ UNCHANGED get_result
    /\ UNCHANGED <<cfgvars, nongetvars, errors, spawned_requests, get_res, get_arrival>>

\* requests.next() yields the result of slot i to the reducer
RequestsNext(i, reply) ==
    /\ get_pc = "running"
    /\ i \in requests
    /\ timeout(i, reply.tag = "Timeout")
    /\ get_arrival' = Append(get_arrival, i)
    /\ LET r == multiplexed_get_one(i, reply) IN
         CASE r.tag = "Some" -> GetSome(i, r.value)
           [] r.tag = "Err" ->
                /\ GetErr(i, r.blobstore_id, r.err)
                /\ get_res' = [get_res EXCEPT ![i] = reply]
           [] r.tag = "None" ->
                /\ GetNone(i)
                /\ get_res' = [get_res EXCEPT ![i] = reply]
    /\ UNCHANGED <<cfgvars, nongetvars, is_logged>>

\* a request of the detached stream completes; its result is only recorded
SpawnedRequestsNext(i, reply) ==
    /\ i \in spawned_requests
    /\ timeout(i, reply.tag = "Timeout")
    /\ spawned_requests' = spawned_requests \ {i}
    /\ get_res' = [get_res EXCEPT ![i] = reply]
    /\ UNCHANGED <<cfgvars, nongetvars, get_pc, is_logged, requests, errors, get_result,
                   get_arrival>>

InitGet ==
    /\ get_pc = "idle"
    /\ is_logged = FALSE
    /\ requests = {}
    /\ errors = EmptyMap
    /\ get_result = GetPending
    /\ spawned_requests = {}
    /\ get_res = [i \in SlotRange |-> ReplyPending]
    /\ get_arrival = <<>>

\* the steps of the reducer of the get call and of its detached requests
GetProgress ==
    \/ \E i \in SlotRange, reply \in GetReplies : RequestsNext(i, reply)
    \/ \E i \in SlotRange, reply \in GetReplies : SpawnedRequestsNext(i, reply)

NextGet ==
    \/ \E logged \in BOOLEAN : Get(logged)
    \/ GetProgress

(***************************************************************************)
(* is_present.                                                             *)
(***************************************************************************)
\* what a blobstore answers to is_present
PresentReplies == {"true", "false", "err"}

PresentPending == [tag |-> "pending", errors |-> EmptyMap]
PresentOk(b) == [tag |-> IF b THEN "OkTrue" ELSE "OkFalse", errors |-> EmptyMap]
PresentAllFailed(errs) == [tag |-> "AllFailed", errors |-> errs]
PresentSomeFailedOthersNone(errs) == [tag |-> "SomeFailedOthersNone", errors |-> errs]

\* the result of is_present once `requests` is drained without Ok(true)
PresentDrained(errs, blobstores_count) ==
    IF DOMAIN errs = {}
    THEN PresentOk(FALSE)
    ELSE IF Cardinality(DOMAIN errs) = blobstores_count
         THEN PresentAllFailed(errs)
         ELSE PresentSomeFailedOthersNone(errs)

\* the reducer goes on with requests rs and errors errs
PresentContinue(rs, errs) ==
    /\ present_requests' = rs
    /\ present_errors' = errs
    /\ IF rs = {}
       THEN /\ present_pc' = "returned"
            /\ present_result' = PresentDrained(errs, Len(blobstores))
       ELSE UNCHANGED <<present_pc, present_result>>

\* (_, Ok(true)): the reducer returns and `requests` is dropped
PresentTrue(i) ==
    /\ present_pc' = "returned"
    /\ present_result' = PresentOk(TRUE)
    /\ present_requests' = {}
    /\ UNCHANGED present_errors

\* mutant: the first error ends the fan-out
PresentErr_ShortCircuit(i, id, e) ==
    /\ present_pc' = "returned"
    /\ present_result' = PresentSomeFailedOthersNone(MapInsert(present_errors, id, e))
    /\ present_requests' = {}
    /\ present_errors' = MapInsert(present_errors, id, e)

\* (blobstore_id, Err(error))
PresentErr(i, id, e) ==
    PresentContinue(present_requests \ {i}, MapInsert(present_errors, id, e))

\* (_, Ok(false))
PresentFalse(i) == PresentContinue(present_requests \ {i}, present_errors)

\* MultiplexedBlobstoreBase::is_present is called, and its future is polled
IsPresent ==
    /\ present_pc = "idle"
    /\ present_requests' = Slots
    /\ IF Slots = {}
       THEN /\ present_pc' = "returned"
            /\ present_result' = PresentDrained(EmptyMap, Len(blobstores))
       ELSE /\ present_pc' = "running"
            /\ UNCHANGED present_result
    /\ UNCHANGED <<cfgvars, nonpresentvars, present_errors, present_res, present_arrival>>

\* requests.next() yields the result of slot i to the reducer; the call to the
\* blobstore is awaited as it is, so it has a result only if the blobstore answers
PresentRequestsNext(i, reply) ==
    /\ present_pc = "running"
    /\ i \in present_requests
    /\ i \notin unresponsive
    /\ present_arrival' = Append(present_arrival, i)
    /\ CASE reply = "true" ->
              /\ PresentTrue(i)
              /\ present_res' = [j \in SlotRange |->
                                   IF j = i THEN reply
                                   ELSE IF j \in present_requests THEN "dropped"
                                   ELSE present_res[j]]
         [] reply = "err" ->
              /\ PresentErr(i, blobstores[i], BlobstoreError(blobstores[i]))
              /\ present_res' = [present_res EXCEPT ![i] = reply]
         [] reply = "false" ->
              /\ PresentFalse(i)
              /\ present_res' = [present_res EXCEPT ![i] = reply]
    /\ UNCHANGED <<cfgvars, nonpresentvars>>

InitPresent ==
    /\ present_pc = "idle"
    /\ present_requests = {}
    /\ present_errors = EmptyMap
    /\ present_result = PresentPending
    /\ present_res = [i \in SlotRange |-> "pending"]
    /\ present_arrival = <<>>

NextPresent ==
    \/ IsPresent
    \/ \E i \in SlotRange, reply \in PresentReplies : PresentRequestsNext(i, reply)

(***************************************************************************)
(* scrub_get.                                                              *)
(***************************************************************************)
\* Option<BlobstoreGetData>
OptSome(value) == [tag |-> "Some", value |-> value]
OptNone == [tag |-> "None", value |-> NoData]
\* BlobstoreGetData::as_bytes: the blob's bytes, without the metadata
as_bytes(value) == value.bytes

ScrubPending ==
    [tag |-> "pending", value |-> OptNone, errors |-> EmptyMap, answered |-> {},
     missing |-> {}]
ScrubOk(opt) ==
    [tag |-> IF opt.tag = "Some" THEN "OkSome" ELSE "OkNone", value |-> opt,
     errors |-> EmptyMap, answered |-> {}, missing |-> {}]
ScrubAllFailed(errs) ==
    [tag |-> "AllFailed", value |-> OptNone, errors |-> errs, answered |-> {},
     missing |-> {}]
ScrubSomeFailedOthersNone(errs) ==
    [tag |-> "SomeFailedOthersNone", value |-> OptNone, errors |-> errs, answered |-> {},
     missing |-> {}]
ValueMismatch(answered, missing) ==
    [tag |-> "ValueMismatch", value |-> OptNone, errors |-> EmptyMap,
     answered |-> answered, missing |-> missing]
SomeMissingItem(missing, best_value) ==
    [tag |-> "SomeMissingItem", value |-> best_value, errors |-> EmptyMap,
     answered |-> {}, missing |-> missing]

\* join_all resolves once none of its futures is pending
join_all_ready(rs) == rs = {}

\* results.into_iter().partition_map(..) over the first n results, collected into
\* the two HashMaps
RECURSIVE partition_map(_, _)
partition_map(results, n) ==
    IF n = 0
    THEN [successes |-> EmptyMap, errors |-> EmptyMap]
    ELSE LET prev == partition_map(results, n - 1)
             r == results[n]
         IN IF r.tag = "Err"
            THEN [prev EXCEPT !.errors = MapInsert(@, r.blobstore_id, r.err)]
            ELSE [prev EXCEPT !.successes =
                                 MapInsert(@, r.blobstore_id,
                                           [tag |-> r.tag, value |-> r.value])]

\* the locals of the loop over `successes`, before its first iteration
ScrubLoopInit ==
    [best_value |-> OptNone, missing |-> {}, answered |-> {}, all_same |-> TRUE]

\* mutant: a blobstore without the value is not recorded as missing
scrub_loop_body_NoMissing(st, blobstore_id, value) ==
    IF value.tag = "None"
    THEN st
    ELSE LET st1 == [st EXCEPT !.answered = @ \cup {blobstore_id}] IN
         IF st.best_value.tag = "None"
         THEN [st1 EXCEPT !.best_value = value]
         ELSE IF as_bytes(value.value) # as_bytes(st.best_value.value)
              THEN [st1 EXCEPT !.all_same = FALSE]
              ELSE st1

\* mutant: the values are compared whole, metadata included
scrub_loop_body_WholeValue(st, blobstore_id, value) ==
    IF value.tag = "None"
    THEN [st EXCEPT !.missing = @ \cup {blobstore_id}]
    ELSE LET st1 == [st EXCEPT !.answered = @ \cup {blobstore_id}] IN
         IF st.best_value.tag = "None"
         THEN [st1 EXCEPT !.best_value = value]
         ELSE IF value.value # st.best_value.value
              THEN [st1 EXCEPT !.all_same = FALSE]
              ELSE st1

\* mutant: all_same is the outcome of the last comparison
scrub_loop_body_LastCompare(st, blobstore_id, value) ==
    IF value.tag = "None"
    THEN [st EXCEPT !.missing = @ \cup {blobstore_id}]
    ELSE LET st1 == [st EXCEPT !.answered = @ \cup {blobstore_id}] IN
         IF st.best_value.tag = "None"
         THEN [st1 EXCEPT !.best_value = value]
         ELSE [st1 EXCEPT !.all_same = (as_bytes(value.value) = as_bytes(st.best_value.value))]

\* one iteration of the loop over `successes`
scrub_loop_body(st, blobstore_id, value) ==
    IF value.tag = "None"
    THEN [st EXCEPT !.missing = @ \cup {blobstore_id}]
    ELSE LET st1 == [st EXCEPT !.answered = @ \cup {blobstore_id}] IN
         IF st.best_value.tag = "None"
         THEN [st1 EXCEPT !.best_value = value]
         ELSE IF as_bytes(value.value) # as_bytes(st.best_value.value)
              THEN [st1 EXCEPT !.all_same = FALSE]
              ELSE st1

\* the loop over successes.into_iter(), which yields the entries in `order` (the
\* locals after an iteration are bound as a value, so they are computed once)
RECURSIVE scrub_loop(_, _, _)
scrub_loop(st, successes, order) ==
    IF order = <<>>
    THEN st
    ELSE LET next == CHOOSE s \in {scrub_loop_body(v, Head(order), successes[Head(order)]) :
                                      v \in {st}} : TRUE
         IN scrub_loop(next, successes, Tail(order))

\* mutant: a missing item is not reported when the present values agree
scrub_match_IgnoreMissing(st, errs) ==
    CASE ~st.all_same -> ValueMismatch(st.answered, st.missing)
      [] st.all_same /\ st.best_value.tag = "None" ->
           IF DOMAIN errs = {} THEN ScrubOk(OptNone) ELSE ScrubSomeFailedOthersNone(errs)
      [] OTHER -> ScrubOk(st.best_value)

\* mutant: the errors are reported whenever a blobstore failed and the values agree
scrub_match_ReportErrors(st, errs) ==
    CASE ~st.all_same -> ValueMismatch(st.answered, st.missing)
      [] st.all_same /\ DOMAIN errs # {} -> ScrubSomeFailedOthersNone(errs)
      [] st.all_same /\ DOMAIN errs = {} /\ st.best_value.tag = "None" -> ScrubOk(OptNone)
      [] st.all_same /\ DOMAIN errs = {} /\ st.best_value.tag = "Some" /\ st.missing # {} ->
           SomeMissingItem(st.missing, st.best_value)
      [] st.all_same /\ DOMAIN errs = {} /\ st.best_value.tag = "Some" /\ st.missing = {} ->
           ScrubOk(st.best_value)

\* match (all_same, best_value.is_some(), missing.is_empty())
scrub_match(st, errs) ==
    CASE ~st.all_same -> ValueMismatch(st.answered, st.missing)
      [] st.all_same /\ st.best_value.tag = "None" ->
           IF DOMAIN errs = {} THEN ScrubOk(OptNone) ELSE ScrubSomeFailedOthersNone(errs)
      [] st.all_same /\ st.best_value.tag = "Some" /\ st.missing # {} ->
           SomeMissingItem(st.missing, st.best_value)
      [] st.all_same /\ st.best_value.tag = "Some" /\ st.missing = {} ->
           ScrubOk(st.best_value)

\* the orders in which a HashMap with key set S may yield its entries
IterationOrders(S) ==
    {o \in [1..Cardinality(S) -> S] : \A a, b \in 1..Cardinality(S) : a # b => o[a] # o[b]}

\* what scrub_get does with the results of join_all, the HashMap yielding its
\* entries in `order`
scrub_get_result(results, order) ==
    CHOOSE r \in
        {IF DOMAIN parts.successes = {}
         THEN ScrubAllFailed(parts.errors)
         ELSE CHOOSE m \in {scrub_match(st, parts.errors) :
                               st \in {scrub_loop(ScrubLoopInit, parts.successes, order)}} : TRUE :
            parts \in {partition_map(results, Len(results))}} : TRUE

\* the results join_all returns for the replies res, in configuration order
JoinAllResults(res) == [i \in Slots |-> multiplexed_get_one(i, res[i])]

\* join_all has resolved with the replies res: the rest of scrub_get runs
ScrubFinish(res) ==
    \E results \in {JoinAllResults(res)} :
        \E order \in IterationOrders(DOMAIN partition_map(results, Len(results)).successes) :
            /\ scrub_order' = order
            /\ scrub_result' = scrub_get_result(results, order)
            /\ scrub_pc' = "returned"

\* MultiplexedBlobstoreBase::scrub_get is called, and its future is polled
ScrubGet ==
    /\ scrub_pc = "idle"
    /\ scrub_requests' = Slots
    /\ IF join_all_ready(Slots)
       THEN ScrubFinish(scrub_res)
       ELSE /\ scrub_pc' = "running"
            /\ UNCHANGED <<scrub_order, scrub_result>>
    /\ UNCHANGED <<cfgvars, nonscrubvars, scrub_res>>

\* mutant: the first value ends the read, as in get
ScrubRequestsNext_FirstSome(i, reply) ==
    /\ scrub_pc = "running"
    /\ i \in scrub_requests
    /\ timeout(i, reply.tag = "Timeout")
    /\ scrub_requests' = scrub_requests \ {i}
    /\ scrub_res' = [scrub_res EXCEPT ![i] = reply]
    /\ IF reply.tag = "Some"
       THEN /\ scrub_pc' = "returned"
            /\ scrub_order' = <<blobstores[i]>>
            /\ scrub_result' = ScrubOk(OptSome(reply.value))
       ELSE IF join_all_ready(scrub_requests \ {i})
            THEN ScrubFinish([scrub_res EXCEPT ![i] = reply])
            ELSE UNCHANGED <<scrub_pc, scrub_order, scrub_result>>
    /\ UNCHANGED <<cfgvars, nonscrubvars>>

\* the multiplexed_get_one future of slot i completes inside join_all
ScrubRequestsNext(i, reply) ==
    /\ scrub_pc = "running"
    /\ i \in scrub_requests
    /\ timeout(i, reply.tag = "Timeout")
    /\ scrub_requests' = scrub_requests \ {i}
    /\ scrub_res' = [scrub_res EXCEPT ![i] = reply]
    /\ IF join_all_ready(scrub_requests \ {i})
       THEN ScrubFinish([scrub_res EXCEPT ![i] = reply])
       ELSE UNCHANGED <<scrub_pc, scrub_order, scrub_result>>
    /\ UNCHANGED <<cfgvars, nonscrubvars>>

InitScrub ==
    /\ scrub_pc = "idle"
    /\ scrub_requests = {}
    /\ scrub_res = [i \in SlotRange |-> ReplyPending]
    /\ scrub_order = <<>>
    /\ scrub_result = ScrubPending

\* the steps of join_all
ScrubProgress == \E i \in SlotRange, reply \in GetReplies : ScrubRequestsNext(i, reply)

NextScrub ==
    \/ ScrubGet
    \/ ScrubProgress

(***************************************************************************)
(* SqlBlobstoreSyncQueue (eden/mononoke/blobstore_sync_queue/src/lib.rs):  *)
(* the table blobstore_sync_queue, the multi-row insert and iter.          *)
(***************************************************************************)
\* blobstore keys and SQL LIKE patterns, as sequences of characters
QueueKeys == {<<"a", "x">>, <<"b", "x">>}
KeyLikes == {<<"a", "%">>, <<"_", "x">>}
\* Option<String>::None
NoKeyLike == <<>>
BlobstoreIds == {1, 2}
MultiplexIds == {1, 2}
OperationKeys == {1, 2}
\* Timestamp: an instant; DateTime: an instant with the offset of a time zone
Timestamps == {1, 2}
Offsets == {0, 1}
DateTimes == [instant : Timestamps, offset : Offsets]
\* the values of `limit` the callers of iter use
Limits == {0, 1, 2}

\* Timestamp::from(DateTime) and DateTime::from(Timestamp)
DateTimeToTimestamp(dt) == dt.instant
TimestampToDateTime(t) == [instant |-> t, offset |-> 0]

\* Option<u64>::None for the id of an entry
NoId == 0
\* BlobstoreSyncQueueEntry::new: the entries the callers build
NewEntries ==
    [blobstore_key : QueueKeys, blobstore_id : BlobstoreIds, multiplex_id : MultiplexIds,
     timestamp : DateTimes, operation_key : OperationKeys, id : {NoId}]

\* the row InsertEntry writes for an entry; the table assigns `id`
InsertEntry(entry, id) ==
    [blobstore_key |-> entry.blobstore_key, blobstore_id |-> entry.blobstore_id,
     multiplex_id |-> entry.multiplex_id,
     add_timestamp |-> DateTimeToTimestamp(entry.timestamp),
     operation_key |-> entry.operation_key, id |-> id]

\* the entry iter makes of a row
RowToEntry(row) ==
    [blobstore_key |-> row.blobstore_key, blobstore_id |-> row.blobstore_id,
     multiplex_id |-> row.multiplex_id, timestamp |-> TimestampToDateTime(row.add_timestamp),
     operation_key |-> row.operation_key, id |-> row.id]

\* the SQL predicate `str LIKE pat`: % matches any characters, _ exactly one
RECURSIVE Like(_, _)
Like(str, pat) ==
    IF pat = <<>>
    THEN str = <<>>
    ELSE IF Head(pat) = "%"
         THEN Like(str, Tail(pat)) \/ (str # <<>> /\ Like(Tail(str), pat))
         ELSE /\ str # <<>>
              /\ Head(pat) = "_" \/ Head(pat) = Head(str)
              /\ Like(Tail(str), Tail(pat))

Min(a, b) == IF a < b THEN a ELSE b

\* mutant: the INSERT replaces the rows that have the ids 1, 2, ..
insert_entries_Replace(entries) ==
    /\ rows' = {r \in rows : r.id \notin 1..Len(entries)}
                   \cup {InsertEntry(entries[n], n) : n \in 1..Len(entries)}
    /\ inserted' = inserted \cup {InsertEntry(entries[n], n) : n \in 1..Len(entries)}
    /\ next_id' = next_id + Len(entries)
\* mutant: the scan may stop before it has collected `limit` elements
Limit_AtMost(S, limit) == {T \in SUBSET S : Cardinality(T) <= limit}
\* LIMIT {limit} on a result without ORDER BY: any `limit` of the elements of S
Limit(S, limit) ==
    {T \in SUBSET S : Cardinality(T) = IF limit < Cardinality(S) THEN limit ELSE Cardinality(S)}

\* the operation keys of the inner SELECT DISTINCT .. WHERE of GetRangeOfEntries
\* (key_like = NoKeyLike) and of GetRangeOfEntriesLike, before LIMIT
InnerSelect(key_like, m, older_than) ==
    {r.operation_key :
        r \in {r \in rows : /\ key_like # NoKeyLike => Like(r.blobstore_key, key_like)
                            /\ r.add_timestamp <= older_than
                            /\ r.multiplex_id = m}}

\* mutant: the ON clause joins on the operation key alone
Join_AnyMultiplex(b, m) == {r \in rows : r.operation_key \in b}
\* JOIN (..) b ON blobstore_sync_queue.operation_key = b.operation_key
\*                AND multiplex_id = {multiplex_id}
Join(b, m) == {r \in rows : r.operation_key \in b /\ r.multiplex_id = m}

\* mutant: the lookup is restricted to one multiplex
GetByKey_OneMultiplex(key) == {r \in rows : r.blobstore_key = key /\ r.multiplex_id = 1}
\* the rows GetByKey selects: WHERE blobstore_key = {key}
GetByKey(key) == {r \in rows : r.blobstore_key = key}

IterNone == [key_like |-> NoKeyLike, multiplex_id |-> 0,
             older_than |-> TimestampToDateTime(0), limit |-> 0]

\* insert_entries: one multi-row INSERT of the entries, which get consecutive ids
insert_entries(entries) ==
    /\ rows' = rows \cup {InsertEntry(entries[n], next_id + n - 1) : n \in 1..Len(entries)}
    /\ inserted' =
           inserted \cup {InsertEntry(entries[n], next_id + n - 1) : n \in 1..Len(entries)}
    /\ next_id' = next_id + Len(entries)

\* SqlBlobstoreSyncQueue::iter
iter(key_like, m, older_than, limit) ==
    /\ iter_args' = [key_like |-> key_like, multiplex_id |-> m, older_than |-> older_than,
                     limit |-> limit]
    /\ \E b \in Limit(InnerSelect(key_like, m, DateTimeToTimestamp(older_than)), limit) :
           iter_result' = {RowToEntry(r) : r \in Join(b, m)}
    /\ UNCHANGED <<nonsqlvars, rows, next_id, inserted>>

InitSql ==
    /\ rows = {}
    /\ next_id = 1
    /\ inserted = {}
    /\ iter_args = IterNone
    /\ iter_result = {}

\* the entries of the iter runs: iter does not look at the blobstore_id
IterEntries == {e \in NewEntries : e.blobstore_id = 1}

\* batch inserts, then one iter call on the table they left
NextSql ==
    \/ /\ iter_args = IterNone
       /\ \E k \in 1..MaxRows :
              /\ next_id + k - 1 <= MaxRows
              /\ \E entries \in [1..k -> IterEntries] : insert_entries(entries)
              /\ UNCHANGED <<nonsqlvars, iter_args, iter_result>>
    \/ /\ iter_args = IterNone
       /\ \E key_like \in KeyLikes \cup {NoKeyLike}, m \in MultiplexIds,
             older_than \in DateTimes, limit \in Limits :
              iter(key_like, m, older_than, limit)

(***************************************************************************)
(* add_many and the batching worker of from_sql_connections.               *)
(***************************************************************************)
\* the add_many calls of a run (add is add_many with one entry)
AddIds == {1, 2}
\* the entries they are given: here only the blobstore_key tells entries apart
AddEntries ==
    {e \in NewEntries : /\ e.blobstore_id = 1
                        /\ e.multiplex_id = 1
                        /\ e.timestamp = TimestampToDateTime(1)
                        /\ e.operation_key = 1}
\* a (sender, entry) pair of the channel: the oneshot sender of entry idx of a call
Items == [call : AddIds, idx : 1..MaxEntries]
EntryOf(item) == add_entries[item.call][item.idx]
\* number of entries the calls of the run were given so far
EntriesGiven == Cardinality({item \in Items : item.idx \in DOMAIN add_entries[item.call]})
\* number of entries call c has pushed into the channel
Sent(c) == Cardinality({n \in DOMAIN arrived : arrived[n].call = c})

\* mutant: every add_many call runs its own copy of the future
ensure_worker_scheduled_NotShared(w) == w + 1
\* ensure_worker_scheduled.await: the future is .shared(), its body (tokio::spawn
\* of the worker) runs when it is awaited first and never again
ensure_worker_scheduled(w) == IF w = 0 THEN 1 ELSE w

\* add_many up to its sends: the worker is scheduled and a oneshot channel is
\* made for every entry
add_many(c, entries) ==
    /\ add_pc[c] = "idle"
    /\ EntriesGiven + Len(entries) <= MaxEntries
    /\ workers' = ensure_worker_scheduled(workers)
    /\ add_entries' = [add_entries EXCEPT ![c] = entries]
    /\ signals' = [signals EXCEPT ![c] = [k \in 1..Len(entries) |-> "none"]]
    /\ add_pc' = [add_pc EXCEPT ![c] = IF entries = <<>> THEN "waiting" ELSE "sending"]
    /\ UNCHANGED <<nonqueuevars, sqlvars, delvars, add_result, channel, arrived, batches>>

\* write_sender.unbounded_send((send, entry)) of the next entry of call c
unbounded_send(c) ==
    /\ add_pc[c] = "sending"
    /\ LET item == [call |-> c, idx |-> Sent(c) + 1]
       IN  /\ channel' = Append(channel, item)
           /\ arrived' = Append(arrived, item)
           /\ add_pc' = [add_pc EXCEPT
                  ![c] = IF item.idx = Len(add_entries[c]) THEN "waiting" ELSE "sending"]
    /\ UNCHANGED <<nonqueuevars, sqlvars, delvars, workers, add_entries, signals,
                   add_result, batches>>

\* mutant: the join is over as soon as one receiver has its signal
try_join_all_Any(sigs) == sigs = <<>> \/ \E k \in DOMAIN sigs : sigs[k] # "none"
\* future::try_join_all(receivers) is ready: every receiver has its signal (no
\* sender is dropped unsent, so no receiver fails)
try_join_all(sigs) == \A k \in DOMAIN sigs : sigs[k] # "none"

\* the end of add_many: Err if one of the results received is an error
AddManyReturn(c) ==
    /\ add_pc[c] = "waiting"
    /\ try_join_all(signals[c])
    /\ add_result' = [add_result EXCEPT
           ![c] = IF \E k \in DOMAIN signals[c] : signals[c][k] = "err" THEN "Err" ELSE "Ok"]
    /\ add_pc' = [add_pc EXCEPT ![c] = "done"]
    /\ UNCHANGED <<nonqueuevars, sqlvars, delvars, workers, add_entries, signals,
                   channel, arrived, batches>>

\* mutant: the chunk is everything that is ready
ready_chunks_All(ch, cap) == ch
\* receiver.ready_chunks(cap): the items that are ready, at most cap of them
ready_chunks(ch, cap) == SubSeq(ch, 1, Min(Len(ch), cap))

\* mutant: the batches are written concurrently
for_each_Concurrent(bs) == TRUE
\* for_each polls the stream for the next batch once the future of the batch
\* before has completed, that is after its senders were served
for_each(bs) == \A n \in DOMAIN bs : bs[n].notified

\* the worker takes the next batch off the channel and issues its insert
WorkerTake ==
    /\ workers > 0
    /\ channel # <<>>
    /\ for_each(batches)
    /\ LET batch == ready_chunks(channel, WRITE_BUFFER_SIZE)
       IN  /\ batches' = Append(batches, [items |-> batch, outcome |-> "pending",
                                          first_id |-> NoId, notified |-> FALSE])
           /\ channel' = SubSeq(channel, Len(batch) + 1, Len(channel))
    /\ UNCHANGED <<nonqueuevars, sqlvars, delvars, workers, add_pc, add_entries, signals,
                   add_result, arrived>>

\* a multi-row INSERT that fails writes no row
InsertFailed == UNCHANGED <<rows, next_id, inserted>>

\* insert_entries(write_connection, entries).await of batch n returns
WorkerInsert(n, outcome) ==
    /\ n \in DOMAIN batches
    /\ batches[n].outcome = "pending"
    /\ IF outcome = "ok"
       THEN insert_entries([i \in DOMAIN batches[n].items |-> EntryOf(batches[n].items[i])])
       ELSE InsertFailed
    /\ batches' = [batches EXCEPT ![n].outcome = outcome,
                                  ![n].first_id = IF outcome = "ok" THEN next_id ELSE NoId]
    /\ UNCHANGED <<nonqueuevars, iter_args, iter_result, delvars, workers, add_pc,
                   add_entries, signals, add_result, channel, arrived>>

\* mutant: only the first sender of the batch is served
WorkerNotify_FirstOnly(n) ==
    /\ n \in DOMAIN batches
    /\ batches[n].outcome # "pending"
    /\ ~batches[n].notified
    /\ signals' = [signals EXCEPT
           ![batches[n].items[1].call][batches[n].items[1].idx] = batches[n].outcome]
    /\ batches' = [batches EXCEPT ![n].notified = TRUE]
    /\ UNCHANGED <<nonqueuevars, sqlvars, delvars, workers, add_pc, add_entries,
                   add_result, channel, arrived>>
\* for sender in senders { sender.send(result) }: every sender of batch n gets the
\* result of the insert
WorkerNotify(n) ==
    /\ n \in DOMAIN batches
    /\ batches[n].outcome # "pending"
    /\ ~batches[n].notified
    /\ signals' = [c \in AddIds |-> [k \in DOMAIN signals[c] |->
           IF \E i \in DOMAIN batches[n].items : batches[n].items[i] = [call |-> c, idx |-> k]
           THEN batches[n].outcome
           ELSE signals[c][k]]]
    /\ batches' = [batches EXCEPT ![n].notified = TRUE]
    /\ UNCHANGED <<nonqueuevars, sqlvars, delvars, workers, add_pc, add_entries,
                   add_result, channel, arrived>>

InitWorker ==
    /\ workers = 0
    /\ add_pc = [c \in AddIds |-> "idle"]
    /\ add_entries = [c \in AddIds |-> <<>>]
    /\ signals = [c \in AddIds |-> <<>>]
    /\ add_result = [c \in AddIds |-> "pending"]
    /\ channel = <<>>
    /\ arrived = <<>>
    /\ batches = <<>>

\* concurrent add_many calls and the worker
NextWorker ==
    \/ \E c \in AddIds, k \in 0..MaxEntries : \E entries \in [1..k -> AddEntries] :
           add_many(c, entries)
    \/ \E c \in AddIds : unbounded_send(c)
    \/ \E c \in AddIds : AddManyReturn(c)
    \/ WorkerTake
    \/ \E n \in 1..MaxEntries, outcome \in {"ok", "err"} : WorkerInsert(n, outcome)
    \/ \E n \in 1..MaxEntries : WorkerNotify(n)

\* Option<String>::None for the key of a get call that was not made
NoKey == <<>>
InitDel ==
    /\ del_pc = "idle"
    /\ del_entries = <<>>
    /\ del_stmts = <<>>
    /\ del_result = "pending"
    /\ sq_get_key = NoKey
    /\ sq_get_result = {}

(***************************************************************************)
(* del and get of the sync queue.                                          *)
(***************************************************************************)
\* the entries the rows of the del and get runs are made of: two keys, in
\* blobstore 1 of multiplex 1 or in blobstore 2 of multiplex 2
GetEntries ==
    {e \in NewEntries : /\ e.timestamp = TimestampToDateTime(1)
                        /\ e.operation_key = 1
                        /\ e.multiplex_id = e.blobstore_id}
\* what a caller can hand to del: entries that iter or get returned, which carry
\* the id of their row, and entries fresh from BlobstoreSyncQueueEntry::new
DelEntries ==
    {RowToEntry(r) : r \in inserted}
        \cup {e \in GetEntries : e.blobstore_key = <<"a", "x">> /\ e.blobstore_id = 1}

\* mutant: the entries without an id are skipped
CollectIds_SkipMissing(entries) ==
    [ok |-> TRUE,
     ids |-> LET with == SelectSeq(entries, LAMBDA e : e.id # NoId)
             IN  [k \in DOMAIN with |-> with[k].id]]
\* entries.into_iter().map(|entry| entry.id.ok_or_else(..)).collect::<Result<_, _>>()
CollectIds(entries) ==
    IF \E k \in DOMAIN entries : entries[k].id = NoId
    THEN [ok |-> FALSE, ids |-> <<>>]
    ELSE [ok |-> TRUE, ids |-> [k \in DOMAIN entries |-> entries[k].id]]

\* mutant: chunks_exact, which leaves out a last chunk that is not full
chunks_Exact(ids, size) ==
    [j \in 1..(Len(ids) \div size) |-> SubSeq(ids, (j - 1) * size + 1, j * size)]
\* ids.chunks(size): consecutive chunks of `size` ids, the last one possibly shorter
chunks(ids, size) ==
    [j \in 1..((Len(ids) + size - 1) \div size) |->
        SubSeq(ids, (j - 1) * size + 1, Min(j * size, Len(ids)))]

\* the chunks the del call has to delete
DelChunks == chunks(CollectIds(del_entries).ids, DeleteChunkSize)

\* del up to its first statement: the ids are collected, the call fails if one is
\* missing and is over if there is none
del(entries) ==
    /\ del_pc = "idle"
    /\ del_entries' = entries
    /\ IF ~CollectIds(entries).ok
       THEN del_pc' = "done" /\ del_result' = "Err"
       ELSE IF chunks(CollectIds(entries).ids, DeleteChunkSize) = <<>>
            THEN del_pc' = "done" /\ del_result' = "Ok"
            ELSE del_pc' = "deleting" /\ del_result' = "pending"
    /\ UNCHANGED <<nonqueuevars, sqlvars, workervars, del_stmts, sq_get_key, sq_get_result>>

\* DELETE FROM blobstore_sync_queue WHERE id in {ids}
DeleteEntries(ids) == {r \in rows : \A k \in DOMAIN ids : r.id # ids[k]}

\* DeleteEntries::query(&write_connection, chunk).await? of the next chunk: a
\* statement that fails deletes nothing and ends the call
DelStatement(outcome) ==
    /\ del_pc = "deleting"
    /\ LET chunk == DelChunks[Len(del_stmts) + 1]
           last == Len(del_stmts) + 1 = Len(DelChunks)
       IN  /\ del_stmts' = Append(del_stmts, [ids |-> chunk, outcome |-> outcome])
           /\ rows' = IF outcome = "ok" THEN DeleteEntries(chunk) ELSE rows
           /\ del_pc' = IF outcome = "err" \/ last THEN "done" ELSE "deleting"
           /\ del_result' = IF outcome = "err" THEN "Err" ELSE IF last THEN "Ok" ELSE "pending"
    /\ UNCHANGED <<nonqueuevars, workervars, next_id, inserted, iter_args, iter_result,
                   del_entries, sq_get_key, sq_get_result>>

\* SqlBlobstoreSyncQueue::get
get(key) ==
    /\ sq_get_key' = key
    /\ sq_get_result' = {RowToEntry(r) : r \in GetByKey(key)}
    /\ UNCHANGED <<nonqueuevars, sqlvars, workervars, del_pc, del_entries, del_stmts, del_result>>

\* batch inserts, then one del call, and one get or iter call that ends the run
NextDel ==
    \/ /\ del_pc = "idle" /\ sq_get_key = NoKey /\ iter_args = IterNone
       /\ \E k \in 1..MaxRows :
              /\ next_id + k - 1 <= MaxRows
              /\ \E entries \in [1..k -> GetEntries] : insert_entries(entries)
              /\ UNCHANGED <<nonsqlvars, iter_args, iter_result>>
    \/ /\ del_pc = "idle" /\ sq_get_key = NoKey /\ iter_args = IterNone
       /\ \E k \in 0..MaxDelEntries : \E entries \in [1..k -> DelEntries] : del(entries)
    \/ /\ del_pc = "deleting" /\ sq_get_key = NoKey /\ iter_args = IterNone
       /\ \E outcome \in {"ok", "err"} : DelStatement(outcome)
    \/ /\ sq_get_key = NoKey /\ iter_args = IterNone
       /\ del_pc # "deleting"
       /\ \E key \in QueueKeys : get(key)
    \/ /\ sq_get_key = NoKey /\ iter_args = IterNone
       /\ del_pc # "deleting"
       /\ \E m \in MultiplexIds : iter(NoKeyLike, m, TimestampToDateTime(1), MaxRows)

\* the entries of S in the order of their ids, as a caller passes on what a read
\* returned
SortedById(S) ==
    CHOOSE s \in [1..Cardinality(S) -> S] : \A i, j \in 1..Cardinality(S) : i < j => s[i].id < s[j].id

\* no get or iter call was made yet
NoRead == sq_get_key = NoKey /\ iter_args = IterNone

\* the whole queue: concurrent add_many calls and the worker, one del call for
\* rows of the table, and a get or iter call, which changes nothing but its own
\* result and ends the run
NextQueue ==
    \/ /\ NoRead
       /\ \E c \in AddIds, k \in 0..MaxRows :
              /\ EntriesGiven + k <= MaxRows
              /\ \E entries \in [1..k -> AddEntries] : add_many(c, entries)
    \/ NoRead /\ \E c \in AddIds : unbounded_send(c)
    \/ NoRead /\ \E c \in AddIds : AddManyReturn(c)
    \/ NoRead /\ WorkerTake
    \/ NoRead /\ \E n \in 1..MaxEntries, outcome \in {"ok", "err"} : WorkerInsert(n, outcome)
    \/ NoRead /\ \E n \in 1..MaxEntries : WorkerNotify(n)
    \/ /\ NoRead
       /\ del_pc = "idle"
       /\ \E S \in (SUBSET rows) \ {{}} : del(SortedById({RowToEntry(r) : r \in S}))
    \/ /\ NoRead
       /\ del_pc = "deleting"
       /\ \E outcome \in {"ok", "err"} : DelStatement(outcome)
    \/ NoRead /\ \E key \in QueueKeys : get(key)
    \/ NoRead /\ \E m \in MultiplexIds : iter(NoKeyLike, m, TimestampToDateTime(1), MaxRows)

\* The queue of scenario S6: up to three operations with up to three rows each,
\* the rows of one operation in one multiplex and with one timestamp.
S6Operations == {1, 2, 3}
S6RowsPerOperation == 0..3
S6Slots == [n \in 1..9 |-> [operation_key |-> ((n - 1) \div 3) + 1, nth |-> ((n - 1) % 3) + 1]]
S6Entries(cnt, m, t) ==
    LET used == SelectSeq([n \in 1..9 |-> n],
                          LAMBDA n : S6Slots[n].nth <= cnt[S6Slots[n].operation_key])
    IN  [i \in 1..Len(used) |->
            [blobstore_key |-> <<"a", "x">>, blobstore_id |-> 1,
             multiplex_id |-> m[S6Slots[used[i]].operation_key],
             timestamp |-> TimestampToDateTime(t[S6Slots[used[i]].operation_key]),
             operation_key |-> S6Slots[used[i]].operation_key, id |-> NoId]]

\* one batch insert of the rows of scenario S6, then one iter call
NextS6 ==
    \/ /\ rows = {}
       /\ \E cnt \in [S6Operations -> S6RowsPerOperation], m \in [S6Operations -> MultiplexIds],
             t \in [S6Operations -> Timestamps] :
              /\ \A k \in S6Operations : cnt[k] = 0 => m[k] = 1 /\ t[k] = 1
              /\ \E k \in S6Operations : cnt[k] > 0
              /\ insert_entries(S6Entries(cnt, m, t))
              /\ UNCHANGED <<nonsqlvars, iter_args, iter_result>>
    \/ /\ rows # {}
       /\ iter_args = IterNone
       /\ \E m \in MultiplexIds, older_than \in Timestamps, limit \in Limits :
              iter(NoKeyLike, m, TimestampToDateTime(older_than), limit)

(***************************************************************************)
(* Specifications.                                                         *)
(***************************************************************************)
Init ==
    /\ \E n \in 0..NumBackends : new(n)
    /\ unresponsive \in SUBSET Slots
    /\ InitPut
    /\ InitGet
    /\ InitPresent
    /\ InitScrub
    /\ InitSql
    /\ InitWorker
    /\ InitDel

\* put calls, possibly concurrent, and their detached tasks
SpecPut == Init /\ [][NextPut]_vars

\* one get call and its detached requests
SpecGet == Init /\ [][NextGet]_vars

\* one is_present call
SpecPresent == Init /\ [][NextPresent]_vars

\* one scrub_get call
SpecScrub == Init /\ [][NextScrub]_vars

\* the sync queue on its own: no blobstore is configured
InitSqlOnly == Init /\ blobstores = <<>>

\* batch inserts into the sync queue and an iter call
SpecSql == InitSqlOnly /\ [][NextSql]_vars

\* scenario S6: a queue of up to nine rows and an iter call
SpecS6 == InitSqlOnly /\ [][NextS6]_vars

\* concurrent add_many calls and the batching worker
SpecWorker == InitSqlOnly /\ [][NextWorker]_vars

\* batch inserts, a del call and a get or iter call
SpecDel == InitSqlOnly /\ [][NextDel]_vars

\* add_many, the worker, del, get and iter together
SpecQueue == InitSqlOnly /\ [][NextQueue]_vars

\* the lists of blobstores MultiplexedBlobstoreBase::new accepts: it stores the list
\* it is given without looking at the BlobstoreIds
BackendLists == UNION {[1..n -> BlobstoreIds] : n \in 0..NumBackends}

\* a multiplexer built by new from any list of blobstores
InitNew ==
    /\ blobstores \in BackendLists
    /\ unresponsive \in SUBSET Slots
    /\ InitPut
    /\ InitGet
    /\ InitPresent
    /\ InitScrub
    /\ InitSql
    /\ InitWorker
    /\ InitDel

\* one get call on a multiplexer built from any list of blobstores
SpecNew == InitNew /\ [][NextGet]_vars

\* SpecGet with the scheduling the executor and the deadlines guarantee: every
\* request of the call and of its detached stream ends, by its result or its deadline
FairSpecGet == SpecGet /\ WF_vars(GetProgress)

\* the scheduling the executor and the deadlines guarantee: every per-blobstore put
\* ends (with a result or by its deadline), every spawned stream is polled, and
\* every handler invocation completes
FairSpecPut == SpecPut /\ WF_vars(\E p \in PutIds : PutProgress(p))

\* the operations of the multiplexer, one kind of operation per run (the calls
\* share no state, so one run per kind covers each of them)
NextOps ==
    \/ get_pc = "idle" /\ present_pc = "idle" /\ scrub_pc = "idle" /\ NextPut
    \/ Started = {} /\ present_pc = "idle" /\ scrub_pc = "idle" /\ NextGet
    \/ Started = {} /\ get_pc = "idle" /\ scrub_pc = "idle" /\ NextPresent
    \/ Started = {} /\ get_pc = "idle" /\ present_pc = "idle" /\ NextScrub

SpecOps == Init /\ [][NextOps]_vars

\* SpecOps with the scheduling the executor and the deadlines guarantee for put, get
\* and scrub_get: every per-blobstore call wrapped in timeout(REQUEST_TIMEOUT, ..)
\* ends, every spawned stream is polled, every handler invocation completes
FairSpecOps ==
    SpecOps /\ WF_vars((\E p \in PutIds : PutProgress(p)) \/ GetProgress \/ ScrubProgress)

(***************************************************************************)
(* Properties of put.                                                      *)
(***************************************************************************)
\* the handlers of call p that have completed with Ok(())
HandlersOk(p) == {i \in Slots : on_put_res[p][i] = "ok"}
\* the (blobstore put, handler) pairs of call p that have succeeded
PairsOk(p) == {i \in Slots : inner_put_res[p][i] = "ok" /\ on_put_res[p][i] = "ok"}
\* call p has returned and none of its detached tasks is left
Quiescent(p) ==
    /\ put_pc[p] = "returned"
    /\ spawned_puts[p] = {}
    /\ and_then_fut[p] = 0
    /\ spawned_handlers[p] = {}
\* the reducer of call p returns in this step
Returns(p) == put_pc[p] = "running" /\ put_pc'[p] = "returned"

\* C1: whenever put returns Ok(()), exactly one handler invocation of that put has
\* completed with Ok(()) at the time of the return (a blobstore write whose handler
\* has not succeeded is not enough for Ok).
C1_OkNeedsHandler ==
    [][\A p \in PutIds :
          (Returns(p) /\ put_result'[p].tag = "Ok")
              => Cardinality({i \in Slots : on_put_res'[p][i] = "ok"}) = 1]_vars

\* C2: once a blobstore put and its handler have both succeeded, put has returned
\* Ok(()) (never Err, and at the latest in the step that consumed the handler's
\* result), whatever the other blobstores and handlers did or are still doing.
C2_PairSuccessReturnsOk ==
    \A p \in PutIds :
        /\ PairsOk(p) # {} => (put_pc[p] = "returned" /\ put_result[p] = RetOk)
        /\ put_result[p].tag = "Err" => HandlersOk(p) = {}

\* C2 witness: put returned Ok on the handler of one blobstore while the put of
\* another blobstore is still pending in the detached stream.
C2_Witness ==
    \E p \in PutIds : \E i, j \in Slots :
        /\ put_result[p] = RetOk
        /\ i \in PairsOk(p)
        /\ j \in spawned_puts[p]
        /\ inner_put_res[p][j] = "pending"

\* C3 (safety): on_put is invoked at most once per blobstore, only for a blobstore
\* whose put was acknowledged, and with that blobstore's id.
C3_Safe ==
    \A p \in PutIds : \A i \in Slots :
        /\ Len(on_put_calls[p][i]) <= 1
        /\ Len(on_put_calls[p][i]) = 1 =>
              /\ inner_put_res[p][i] = "ok"
              /\ on_put_calls[p][i][1].blobstore_id = blobstores[i]

\* C3 (at quiescence): every blobstore put has completed, and on_put was invoked
\* exactly once for each one that succeeded and never for one that failed.
C3_Quiet ==
    \A p \in PutIds :
        Quiescent(p) =>
            \A i \in Slots :
                /\ inner_put_res[p][i] # "pending"
                /\ Len(on_put_calls[p][i]) = 1 <=> inner_put_res[p][i] = "ok"

\* C3: over the whole lifetime of a put, including the work detached after it has
\* returned, on_put is invoked exactly once for each blobstore whose put succeeded,
\* never before the acknowledgement and never for a failed or timed out put; under
\* fair scheduling every put that was called reaches the state where all that work
\* is done (again and again all the puts called so far are quiescent, and a
\* quiescent put stays so).
C3_HandlerPerSuccessfulPut ==
    /\ [](C3_Safe /\ C3_Quiet)
    /\ []<>(\A p \in PutIds : put_pc[p] # "idle" => Quiescent(p))

\* C3 witness: a put that returned Ok and whose detached work has finished, with a
\* handler that succeeded, a handler that failed and a put that timed out.
C3_Witness ==
    \E p \in PutIds : \E i, j, k \in Slots :
        /\ Quiescent(p)
        /\ put_result[p] = RetOk
        /\ on_put_res[p][i] = "ok"
        /\ on_put_res[p][j] = "err"
        /\ inner_put_res[p][k] = "timeout"
        /\ put_stats[p][j] > put_stats[p][i]

\* the number of queue rows for blobstore slot i carrying the key of call p
RowsOf(p, i) ==
    CopiesIn([blobstore_key |-> put_key[p], blobstore_id |-> blobstores[i],
              multiplex_id |-> multiplex_id, operation_key |-> operation_key[p]],
             queue)

CallsOf(p) == UNION {{on_put_calls[p][i][n] : n \in 1..Len(on_put_calls[p][i])} :
                        i \in Slots}

\* C5: every handler invocation of one put receives that put's OperationKey, and
\* handler invocations of two different puts never receive the same OperationKey.
C5_OneKeyPerPut ==
    \A p, q \in PutIds : \A c \in CallsOf(p), d \in CallsOf(q) :
        /\ c.operation_key = operation_key[p]
        /\ (c.operation_key = d.operation_key) <=> (p = q)

\* C5 witness: two concurrent puts of the same blob key, each with two handler
\* invocations, one of them made by a detached task.
C5_Witness ==
    \E p, q \in PutIds :
        /\ p # q
        /\ put_key[p] = put_key[q]
        /\ put_pc[p] = "running"
        /\ put_pc[q] = "returned"
        /\ and_then_fut[q] # 0
        /\ Cardinality(CallsOf(p)) = 2
        /\ Cardinality({i \in Slots : on_put_calls[q][i] # <<>>}) = 2

\* C6: put returns Err only when every blobstore put has completed and every
\* handler scheduled for a successful put has completed (none of them with
\* success), and the error is the last one the reducer consumed, from a put or
\* from a handler.
C6_ErrIsLastError ==
    \A p \in PutIds :
        put_result[p].tag = "Err" =>
            /\ \A i \in Slots :
                  /\ inner_put_res[p][i] # "pending"
                  /\ inner_put_res[p][i] = "ok" => on_put_res[p][i] = "err"
            /\ err_seen[p] # <<>>
            /\ put_result[p].err = err_seen[p][Len(err_seen[p])]

\* C6 witness: put returned the error of a handler that arrived after the error
\* of a blobstore put.
C6_Witness ==
    \E p \in PutIds :
        /\ put_result[p].tag = "Err"
        /\ Len(err_seen[p]) >= 2
        /\ err_seen[p][1].kind = "blobstore failed"
        /\ put_result[p].err.kind = "on_put failed"

\* every blobstore put of call p has failed (with an error or by its deadline)
AllPutsFailed(p) ==
    /\ Slots # {}
    /\ \A i \in Slots : inner_put_res[p][i] \in {"err", "timeout"}

GetAnswered(tags) == {i \in Slots : get_res[i].tag \in tags}
\* the blobstores whose get failed or timed out
GetFailedIds == {blobstores[i] : i \in GetAnswered({"Err", "Timeout"})}

\* C8: get returns Ok(Some(v)) iff some blobstore returned Ok(Some(v)) within its
\* deadline: it returns the value of the first Some result the reducer consumed,
\* whatever errors and None answers arrived before it, and it returns something
\* else only when every blobstore answered and none answered Some.
C8_GetFirstSome ==
    get_pc = "returned" =>
        IF get_result.tag = "OkSome"
        THEN LET w == get_arrival[Len(get_arrival)] IN
               /\ get_res[w].tag = "Some"
               /\ get_result.value.bytes = get_res[w].value.bytes
               /\ get_result.errors = EmptyMap
               /\ \A n \in 1..(Len(get_arrival) - 1) :
                      get_res[get_arrival[n]].tag \in {"None", "Err", "Timeout"}
        ELSE GetAnswered({"None", "Err", "Timeout"}) = Slots

\* C8 witness: the value arrived after an error and a None answer.
C8_Witness ==
    /\ get_result.tag = "OkSome"
    /\ Len(get_arrival) = 3
    /\ get_res[get_arrival[1]].tag = "Err"
    /\ get_res[get_arrival[2]].tag = "None"

\* C9: when no blobstore returned a value, get returns Ok(None) iff every blobstore
\* returned None, AllFailed iff every blobstore failed (the map then has exactly the
\* configured blobstores as keys), and SomeFailedOthersNone otherwise; the map of
\* either error has exactly the failed blobstores as keys, each with its own error.
C9_GetClassification ==
    (get_pc = "returned" /\ get_result.tag # "OkSome") =>
        /\ get_result.tag = "OkNone" <=> GetAnswered({"None"}) = Slots
        /\ get_result.tag = "AllFailed" <=>
               (Slots # {} /\ GetAnswered({"Err", "Timeout"}) = Slots)
        /\ get_result.tag = "AllFailed" =>
               DOMAIN get_result.errors = {blobstores[i] : i \in Slots}
        /\ get_result.tag = "SomeFailedOthersNone" <=>
               /\ GetAnswered({"None"}) # Slots
               /\ GetAnswered({"Err", "Timeout"}) # Slots
        /\ get_result.tag \in {"AllFailed", "SomeFailedOthersNone"} =>
               /\ DOMAIN get_result.errors = GetFailedIds
               /\ \A i \in GetAnswered({"Err"}) :
                      get_result.errors[blobstores[i]] = BlobstoreError(blobstores[i])
               /\ \A i \in GetAnswered({"Timeout"}) :
                      get_result.errors[blobstores[i]] = TimeoutError

\* C9 witness: one blobstore failed, one timed out and one returned None.
C9_Witness ==
    /\ get_result.tag = "SomeFailedOthersNone"
    /\ GetAnswered({"Err"}) # {}
    /\ GetAnswered({"Timeout"}) # {}
    /\ GetAnswered({"None"}) # {}

(***************************************************************************)
(* Properties of is_present.                                               *)
(***************************************************************************)
\* the slots whose blobstore gave the reducer one of the answers
PresentAnswered(answers) == {i \in Slots : present_res[i] \in answers}

\* C10: is_present returns Ok(true) iff a blobstore reported Ok(true), also when
\* other blobstores failed first; otherwise every blobstore has answered and the
\* result is Ok(false) iff all reported Ok(false), AllFailed over exactly the
\* configured blobstores iff all failed, and SomeFailedOthersNone over exactly the
\* failed blobstores otherwise.
C10_PresentClassification ==
    present_pc = "returned" =>
        /\ present_result.tag = "OkTrue" <=> PresentAnswered({"true"}) # {}
        /\ present_result.tag # "OkTrue" => PresentAnswered({"false", "err"}) = Slots
        /\ present_result.tag = "OkFalse" <=> PresentAnswered({"false"}) = Slots
        /\ present_result.tag = "AllFailed" <=>
               (Slots # {} /\ PresentAnswered({"err"}) = Slots)
        /\ present_result.tag = "AllFailed" =>
               DOMAIN present_result.errors = {blobstores[i] : i \in Slots}
        /\ present_result.tag = "SomeFailedOthersNone" <=>
               /\ PresentAnswered({"true"}) = {}
               /\ PresentAnswered({"err"}) \notin {{}, Slots}
        /\ present_result.tag \in {"AllFailed", "SomeFailedOthersNone"} =>
               /\ DOMAIN present_result.errors =
                      {blobstores[i] : i \in PresentAnswered({"err"})}
               /\ \A id \in DOMAIN present_result.errors :
                      present_result.errors[id] = BlobstoreError(id)

\* C10 witness: Ok(true) arrived after another blobstore had failed, with a third
\* blobstore still unanswered.
C10_Witness ==
    /\ present_result.tag = "OkTrue"
    /\ Len(present_arrival) = 2
    /\ present_res[present_arrival[1]] = "err"
    /\ PresentAnswered({"dropped"}) # {}

(***************************************************************************)
(* Properties of the error handling shared by the operations.              *)
(***************************************************************************)
\* the slots whose blobstore gave join_all of scrub_get one of the answers
ScrubAnswered(tags) == {i \in Slots : scrub_res[i].tag \in tags}
\* the results of scrub_get that are an Err
ScrubErrTags == {"AllFailed", "SomeFailedOthersNone", "ValueMismatch", "SomeMissingItem"}

\* C11: put, get, is_present and scrub_get return an Err only when no call to a
\* blobstore (and, for put, no handler invocation) is still outstanding: an error
\* or a timeout of one blobstore alone never ends the operation.
C11_ErrOnlyWhenDrained ==
    /\ \A p \in PutIds :
           put_result[p].tag = "Err" =>
               \A i \in Slots : /\ inner_put_res[p][i] # "pending"
                                /\ on_put_res[p][i] \notin {"queued", "running"}
    /\ get_result.tag \in {"AllFailed", "SomeFailedOthersNone"} =>
           GetAnswered({"None", "Err", "Timeout"}) = Slots
    /\ present_result.tag \in {"AllFailed", "SomeFailedOthersNone"} =>
           PresentAnswered({"false", "err"}) = Slots
    /\ scrub_result.tag \in ScrubErrTags =>
           ScrubAnswered({"Some", "None", "Err", "Timeout"}) = Slots

\* C11 witness: the first result get consumed was an error, the read went on over
\* the other two blobstores and ended with an Err.
C11_Witness ==
    /\ get_result.tag = "SomeFailedOthersNone"
    /\ Len(get_arrival) = 3
    /\ get_res[get_arrival[1]].tag \in {"Err", "Timeout"}
    /\ get_res[get_arrival[3]].tag = "None"

\* C12: a value returned by get or by scrub_get (in Ok(Some) or inside
\* SomeMissingItem) never carries ctime metadata, and its bytes are the bytes a
\* blobstore answered with.
C12_NoCtimeReturned ==
    /\ get_result.tag = "OkSome" =>
           /\ get_result.value.ctime = 0
           /\ \E i \in GetAnswered({"Some"}) :
                  get_res[i].value.bytes = get_result.value.bytes
    /\ scrub_result.tag \in {"OkSome", "SomeMissingItem"} =>
           /\ scrub_result.value.value.ctime = 0
           /\ \E i \in ScrubAnswered({"Some"}) :
                  scrub_res[i].value.bytes = scrub_result.value.value.bytes

\* the slots whose result the reducer of get has consumed with one of the tags
GetConsumed(tags) ==
    {get_arrival[n] : n \in {m \in 1..Len(get_arrival) : get_res[get_arrival[m]].tag \in tags}}
\* the number of timeout errors the reducer of put call p has consumed
TimeoutsSeen(p) == Cardinality({n \in 1..Len(err_seen[p]) : err_seen[p][n] = TimeoutError})

\* an elapsed deadline is an error of that blobstore only
C13_Recorded ==
    /\ DOMAIN errors = {blobstores[i] : i \in GetConsumed({"Err", "Timeout"})}
    /\ \A i \in GetConsumed({"Err", "Timeout"}) :
           errors[blobstores[i]] = TimeoutError <=> i \in unresponsive
    /\ scrub_result.tag \in {"AllFailed", "SomeFailedOthersNone"} =>
           /\ DOMAIN scrub_result.errors =
                  {blobstores[i] : i \in ScrubAnswered({"Err", "Timeout"})}
           /\ \A i \in ScrubAnswered({"Err", "Timeout"}) :
                  scrub_result.errors[blobstores[i]] = TimeoutError <=> i \in unresponsive
    /\ \A p \in PutIds :
           (put_pc[p] = "running" \/ put_result[p].tag = "Err") =>
               TimeoutsSeen(p) =
                   Cardinality({i \in Slots : inner_put_res[p][i] = "timeout"})

\* the calls to the other blobstores are not aborted
C13_SiblingsKept ==
    /\ get_pc = "running" => requests = GetAnswered({"pending"})
    /\ GetAnswered({"dropped"}) # {} => get_result.tag = "OkSome"
    /\ scrub_pc = "running" => scrub_requests = ScrubAnswered({"pending"})
    /\ \A p \in PutIds :
           put_pc[p] = "running" => puts[p] = {i \in Slots : inner_put_res[p][i] = "pending"}

\* the operation succeeds when another blobstore succeeds
C13_StillSucceeds ==
    /\ GetConsumed({"Some"}) # {} => get_result.tag = "OkSome"
    /\ \A p \in PutIds : PairsOk(p) # {} => put_result[p] = RetOk
    /\ (/\ scrub_pc = "returned"
        /\ ScrubAnswered({"Some"}) # {}
        /\ ScrubAnswered({"None"}) = {}
        /\ \A i, j \in ScrubAnswered({"Some"}) :
               scrub_res[i].value.bytes = scrub_res[j].value.bytes)
           => scrub_result.tag = "OkSome"

\* every call of put, get and scrub_get that was made has returned
C13_AllReturned ==
    /\ \A p \in PutIds : put_pc[p] # "running"
    /\ get_pc # "running"
    /\ scrub_pc # "running"

\* C13: in get, scrub_get and put a call to a blobstore that does not answer within
\* its deadline is recorded as the error "blobstore operation timeout" of that
\* blobstore only, the calls to the other blobstores go on, and the operation
\* succeeds if another blobstore (for put: and its handler) succeeds; so each of
\* these operations returns, whichever blobstores never answer.
C13_DeadlineBoundsTheWait ==
    /\ [](C13_Recorded /\ C13_SiblingsKept /\ C13_StillSucceeds)
    /\ []<>C13_AllReturned

\* C13 witness: put returned Ok(()) through the handler of one blobstore after the
\* put to a blobstore that never answers had timed out.
C13_Witness ==
    \E p \in PutIds :
        /\ put_result[p] = RetOk
        /\ PairsOk(p) # {}
        /\ TimeoutsSeen(p) > 0
        /\ \E i \in unresponsive : inner_put_res[p][i] = "timeout"

\* C14: every call of is_present to a blobstore ends within its deadline (with
\* the blobstore's answer or with a timeout error for that blobstore), so an
\* is_present call that has not returned always has a result coming and is never
\* left waiting for a blobstore that does not answer.
C14_PresentDeadline ==
    present_pc = "running" =>
        ENABLED (\E i \in SlotRange, reply \in PresentReplies : PresentRequestsNext(i, reply))

(***************************************************************************)
(* Properties of scrub_get.                                                *)
(***************************************************************************)
\* the blobstore ids of a set of slots
IdsOf(slots) == {blobstores[i] : i \in slots}
\* the blobstores that answered scrub_get with a value, with None, with an error
ScrubSome == ScrubAnswered({"Some"})
ScrubNone == ScrubAnswered({"None"})
ScrubFailed == ScrubAnswered({"Err", "Timeout"})
\* the values the blobstores answered with have the same bytes
ScrubAgree == \A i, j \in ScrubSome : scrub_res[i].value.bytes = scrub_res[j].value.bytes
\* the value in the result of scrub_get has the bytes the blobstores answered with
ScrubValueIsTheirs ==
    /\ scrub_result.value.tag = "Some"
    /\ \A i \in ScrubSome : scrub_res[i].value.bytes = scrub_result.value.value.bytes

\* C15: the result of scrub_get follows the decision table over the answers of the
\* blobstores: no successful answer -> AllFailed(errors); two values with different
\* bytes -> ValueMismatch; only None answers -> Ok(None) if no blobstore failed,
\* else SomeFailedOthersNone(errors); values with the same bytes and a None ->
\* SomeMissingItem with that value; values with the same bytes and no None ->
\* Ok(Some(value)).
C15_ScrubDecisionTable ==
    scrub_pc = "returned" =>
        /\ ScrubSome \cup ScrubNone = {} =>
               /\ scrub_result.tag = "AllFailed"
               /\ DOMAIN scrub_result.errors = IdsOf(ScrubFailed)
        /\ ~ScrubAgree => scrub_result.tag = "ValueMismatch"
        /\ (ScrubSome = {} /\ ScrubNone # {} /\ ScrubFailed = {}) =>
               scrub_result.tag = "OkNone"
        /\ (ScrubSome = {} /\ ScrubNone # {} /\ ScrubFailed # {}) =>
               /\ scrub_result.tag = "SomeFailedOthersNone"
               /\ DOMAIN scrub_result.errors = IdsOf(ScrubFailed)
        /\ (ScrubSome # {} /\ ScrubAgree /\ ScrubNone # {}) =>
               /\ scrub_result.tag = "SomeMissingItem"
               /\ ScrubValueIsTheirs
        /\ (ScrubSome # {} /\ ScrubAgree /\ ScrubNone = {}) =>
               /\ scrub_result.tag = "OkSome"
               /\ ScrubValueIsTheirs

\* C15 witness: one blobstore had the value, one answered None and one failed.
C15_Witness ==
    /\ scrub_result.tag = "SomeMissingItem"
    /\ ScrubSome # {}
    /\ ScrubNone # {}
    /\ ScrubFailed # {}

\* C16: scrub_get returns, whatever the result, only when the get of every
\* configured blobstore has completed or hit its deadline; get returns as soon
\* as its reducer consumes the first Ok(Some).
C16_ScrubWaitsForAll ==
    /\ scrub_pc = "returned" => ScrubSome \cup ScrubNone \cup ScrubFailed = Slots
    /\ scrub_pc # "returned" => scrub_result = ScrubPending
    /\ GetConsumed({"Some"}) # {} => get_pc = "returned"

\* C16 witness: two blobstores answered with different values, the third hit its
\* deadline, and only then ValueMismatch was returned.
C16_Witness ==
    /\ scrub_result.tag = "ValueMismatch"
    /\ ScrubAnswered({"Timeout"}) # {}
    /\ Cardinality(ScrubSome) = 2

\* C17: in ValueMismatch(answered, missing) answered is exactly the blobstores that
\* returned a value and missing exactly those that returned None; in
\* SomeMissingItem(missing, value) missing is exactly the non-empty set of
\* blobstores that returned None and every blobstore that returned a value returned
\* the bytes of value; a blobstore that failed is in neither set.
C17_ScrubSetsExact ==
    scrub_pc = "returned" =>
        /\ scrub_result.tag = "ValueMismatch" =>
               /\ scrub_result.answered = IdsOf(ScrubSome)
               /\ scrub_result.missing = IdsOf(ScrubNone)
               /\ scrub_result.answered \cap scrub_result.missing = {}
               /\ (scrub_result.answered \cup scrub_result.missing) \cap IdsOf(ScrubFailed) = {}
        /\ scrub_result.tag = "SomeMissingItem" =>
               /\ scrub_result.missing = IdsOf(ScrubNone)
               /\ scrub_result.missing # {}
               /\ scrub_result.missing \cap IdsOf(ScrubFailed \cup ScrubSome) = {}
               /\ ScrubSome # {}
               /\ ScrubValueIsTheirs

\* C17 witness: two blobstores disagree and the third returned None.
C17_Witness ==
    /\ scrub_result.tag = "ValueMismatch"
    /\ Cardinality(scrub_result.answered) = 2
    /\ Cardinality(scrub_result.missing) = 1

\* C18: scrub_get compares the bytes of the values only: values with the same bytes
\* never produce ValueMismatch, whatever their ctime.
C18_ScrubComparesBytes ==
    scrub_result.tag = "ValueMismatch" =>
        \E i, j \in ScrubSome : scrub_res[i].value.bytes # scrub_res[j].value.bytes

\* C18 witness: two blobstores returned the same bytes with different ctime and
\* scrub_get returned the value.
C18_Witness ==
    /\ scrub_result.tag \in {"OkSome", "SomeMissingItem"}
    /\ \E i, j \in ScrubSome : /\ scrub_res[i].value.bytes = scrub_res[j].value.bytes
                              /\ scrub_res[i].value.ctime # scrub_res[j].value.ctime

(***************************************************************************)
(* Properties of the sync queue.                                           *)
(***************************************************************************)
\* an iter call has returned
IterReturned == iter_args # IterNone
\* the operation keys the entries of the result carry
IterKeys == {e.operation_key : e \in iter_result}
\* the rows of operation key k in the multiplex the iter call asked for
RowsInMultiplex(k) ==
    {r \in rows : r.operation_key = k /\ r.multiplex_id = iter_args.multiplex_id}

\* C19: the entries iter(key_like, M, older_than, L) returns carry at most L
\* distinct operation keys, each of them is a row of the queue with multiplex_id M,
\* and for every operation key in the result every row of the queue with that key
\* and multiplex_id M is in the result.
C19_IterClosedWithinMultiplex ==
    IterReturned =>
        /\ Cardinality(IterKeys) <= iter_args.limit
        /\ \A e \in iter_result :
               /\ e.multiplex_id = iter_args.multiplex_id
               /\ \E r \in RowsInMultiplex(e.operation_key) :
                      r.id = e.id /\ r.blobstore_key = e.blobstore_key
        /\ \A k \in IterKeys : \A r \in RowsInMultiplex(k) : \E e \in iter_result : e.id = r.id

\* C19 witness: with limit 1 the result holds two rows of one operation, one of
\* them added after older_than.
C19_Witness ==
    /\ IterReturned
    /\ iter_args.limit = 1
    /\ \E e1, e2 \in iter_result :
           /\ e1.id # e2.id
           /\ e1.timestamp.instant <= iter_args.older_than.instant
           /\ e2.timestamp.instant > iter_args.older_than.instant

\* C20: every operation key in the result of iter(key_like, M, older_than, L) has
\* a row in multiplex M that was added strictly before older_than and, when
\* key_like is given, whose blobstore_key matches it; an operation whose rows in M
\* were all added at or after older_than is not returned.
C20_IterStrictlyOlder ==
    IterReturned =>
        \A k \in IterKeys :
            \E r \in RowsInMultiplex(k) :
                /\ r.add_timestamp < iter_args.older_than.instant
                /\ iter_args.key_like # NoKeyLike => Like(r.blobstore_key, iter_args.key_like)

\* the operation keys the query of the iter call selects from, before LIMIT: those
\* with a row in the multiplex asked for that is not younger than older_than and,
\* when key_like is given, whose blobstore_key matches it
EligibleKeys ==
    {r.operation_key :
        r \in {r \in rows : /\ r.multiplex_id = iter_args.multiplex_id
                            /\ r.add_timestamp <= iter_args.older_than.instant
                            /\ iter_args.key_like # NoKeyLike =>
                                   Like(r.blobstore_key, iter_args.key_like)}}
\* C21: when n distinct operation keys are eligible in multiplex M (a row of theirs
\* in M satisfies the predicates of the query), the result of
\* iter(key_like, M, older_than, L) covers exactly min(L, n) distinct operation
\* keys, all of them eligible, and holds exactly the rows of those keys in M; with
\* L = 0 it is empty.
C21_IterFillsTheLimit ==
    IterReturned =>
        /\ IterKeys \subseteq EligibleKeys
        /\ Cardinality(IterKeys) = Min(iter_args.limit, Cardinality(EligibleKeys))
        /\ Cardinality(iter_result) = Cardinality(UNION {RowsInMultiplex(k) : k \in IterKeys})
        /\ iter_args.limit = 0 => iter_result = {}

\* C21 witness: scenario S6, three eligible operation keys of three rows each and
\* limit 2: the result has six rows covering two of the keys.
C21_Witness ==
    /\ IterReturned
    /\ iter_args.limit = 2
    /\ Cardinality(EligibleKeys) = 3
    /\ \A k \in EligibleKeys : Cardinality(RowsInMultiplex(k)) = 3
    /\ Cardinality(iter_result) = 6
    /\ Cardinality(IterKeys) = 2

\* C22: for every entry iter returns, every row of the queue with the same
\* blobstore_key is returned too (group (2) of the documentation of the trait).
C22_IterClosedUnderBlobstoreKey ==
    IterReturned =>
        \A e \in iter_result :
            \A r \in rows :
                r.blobstore_key = e.blobstore_key => \E e2 \in iter_result : e2.id = r.id

(***************************************************************************)
(* Properties of add_many and the batching worker.                         *)
(***************************************************************************)
\* item is the i-th (sender, entry) pair of batch n
InBatch(item, n, i) ==
    n \in DOMAIN batches /\ i \in DOMAIN batches[n].items /\ batches[n].items[i] = item
\* the places of an item in the batches the worker took
PlacesOf(item) ==
    {pl \in (1..MaxEntries) \X (1..MaxEntries) : InBatch(item, pl[1], pl[2])}
\* the row a successful insert of batch n wrote for its i-th entry
RowOf(n, i) == InsertEntry(EntryOf(batches[n].items[i]), batches[n].first_id + i - 1)
\* the entries of a call, as (sender, entry) pairs
ItemsOf(c) == {[call |-> c, idx |-> k] : k \in DOMAIN add_entries[c]}
\* the insert of a batch holding the item succeeded and its row is in the table
Persisted(item) ==
    \E pl \in PlacesOf(item) :
        batches[pl[1]].outcome = "ok" /\ RowOf(pl[1], pl[2]) \in rows
\* a get for the key of the item, made now, returns an entry for it
Gettable(item) ==
    \E pl \in PlacesOf(item) :
        \E e \in {RowToEntry(r) : r \in GetByKey(EntryOf(item).blobstore_key)} :
            /\ e.id = RowOf(pl[1], pl[2]).id
            /\ e.id # NoId
            /\ e.blobstore_key = EntryOf(item).blobstore_key
            /\ e.blobstore_id = EntryOf(item).blobstore_id
            /\ e.multiplex_id = EntryOf(item).multiplex_id
            /\ e.operation_key = EntryOf(item).operation_key

OkPlaces ==
    {pl \in (1..MaxEntries) \X (1..MaxEntries) :
        /\ pl[1] \in DOMAIN batches
        /\ pl[2] \in DOMAIN batches[pl[1]].items
        /\ batches[pl[1]].outcome = "ok"}

\* C24: the table holds exactly one row for every entry of every batch whose insert
\* succeeded and no row of a batch whose insert failed; once the senders of a
\* batch were served, every entry of the batch has the outcome of the batch as its
\* completion signal; and a completion signal that was delivered is the outcome
\* of the batch that held the entry.
C24_BatchOutcomeIsShared ==
    /\ rows = {RowOf(pl[1], pl[2]) : pl \in OkPlaces}
    /\ Cardinality(rows) = Cardinality(OkPlaces)
    /\ \A n \in DOMAIN batches :
           batches[n].notified =>
               \A i \in DOMAIN batches[n].items :
                   signals[batches[n].items[i].call][batches[n].items[i].idx] = batches[n].outcome
    /\ \A c \in AddIds : \A item \in ItemsOf(c) :
           signals[c][item.idx] # "none" =>
               /\ Cardinality(PlacesOf(item)) = 1
               /\ \A pl \in PlacesOf(item) :
                      batches[pl[1]].notified /\ batches[pl[1]].outcome = signals[c][item.idx]

\* C24 witness: a batch with entries of two calls failed and both were told so,
\* while the rows of a batch that succeeded are in the table.
C24_Witness ==
    /\ \E n \in DOMAIN batches :
           /\ batches[n].outcome = "err"
           /\ batches[n].notified
           /\ \E i, j \in DOMAIN batches[n].items :
                  batches[n].items[i].call # batches[n].items[j].call
    /\ rows # {}

\* C25: every batch the worker takes has at least one entry and at most
\* WRITE_BUFFER_SIZE entries, all of them taken from the channel, and a batch that
\* was written was written by one insert: its rows have consecutive ids.
C25_BatchSizeBounded ==
    \A n \in DOMAIN batches :
        /\ Len(batches[n].items) >= 1
        /\ Len(batches[n].items) <= WRITE_BUFFER_SIZE
        /\ \A i \in DOMAIN batches[n].items :
               \E p \in DOMAIN arrived : arrived[p] = batches[n].items[i]
        /\ batches[n].outcome = "ok" =>
               {r.id : r \in {RowOf(n, i) : i \in DOMAIN batches[n].items}}
                   = batches[n].first_id .. (batches[n].first_id + Len(batches[n].items) - 1)

\* C25 witness: the worker took a batch of WRITE_BUFFER_SIZE entries and left a
\* pending entry in the channel.
C25_Witness ==
    /\ batches # <<>>
    /\ Len(batches[Len(batches)].items) = WRITE_BUFFER_SIZE
    /\ batches[Len(batches)].outcome = "pending"
    /\ channel # <<>>

\* the batches whose senders were not served yet
InFlight == {n \in DOMAIN batches : ~batches[n].notified}

\* C26: at most one worker task is ever spawned, and it is spawned once an
\* add_many call has been made; at most one batch is in flight; and when a batch
\* has been taken, the insert of every batch before it has finished and its
\* senders were served.
C26_SingleWorker ==
    /\ workers <= 1
    /\ (\E c \in AddIds : add_pc[c] # "idle") => workers = 1
    /\ Cardinality(InFlight) <= 1
    /\ \A n \in DOMAIN batches :
           n < Len(batches) => batches[n].outcome # "pending" /\ batches[n].notified

\* C26 witness: two add_many calls are running, the first batch is done and the
\* insert of the second is in flight.
C26_Witness ==
    /\ \A c \in AddIds : add_pc[c] \in {"sending", "waiting"}
    /\ workers = 1
    /\ Len(batches) = 2
    /\ batches[2].outcome = "pending"

\* number of entries in the batches before batch n
Offset(n) ==
    Cardinality({pl \in (1..MaxEntries) \X (1..MaxEntries) :
                    /\ pl[1] \in DOMAIN batches
                    /\ pl[1] < n
                    /\ pl[2] \in DOMAIN batches[pl[1]].items})

\* C27: the batches are consecutive segments of the arrival sequence; of two
\* entries whose rows were written the one that arrived first has the smaller id;
\* and the entries of one add_many call arrive in the order of the call.
C27_ArrivalOrder ==
    /\ \A n \in DOMAIN batches : \A i \in DOMAIN batches[n].items :
           /\ Offset(n) + i \in DOMAIN arrived
           /\ batches[n].items[i] = arrived[Offset(n) + i]
    /\ \A p, q \in DOMAIN arrived :
           p < q =>
               \A pp \in PlacesOf(arrived[p]), pq \in PlacesOf(arrived[q]) :
                   /\ pp[1] <= pq[1]
                   /\ batches[pp[1]].outcome = "ok" /\ batches[pq[1]].outcome = "ok"
                          => RowOf(pp[1], pp[2]).id < RowOf(pq[1], pq[2]).id
    /\ \A p, q \in DOMAIN arrived :
           arrived[p].call = arrived[q].call /\ arrived[p].idx < arrived[q].idx => p < q

\* C27 witness: the entries of two calls arrived interleaved and were written by
\* two batches.
C27_Witness ==
    /\ Len(arrived) = 3
    /\ arrived[1].call = arrived[3].call
    /\ arrived[1].call # arrived[2].call
    /\ Len(batches) = 2
    /\ \A n \in DOMAIN batches : batches[n].outcome = "ok"
    /\ Cardinality(rows) = 3

(***************************************************************************)
(* Properties of del and get of the sync queue.                            *)
(***************************************************************************)
\* a del call has been made
DelCalled == del_pc # "idle"
\* the ids of the entries the del call was given
DelIds == {del_entries[k].id : k \in DOMAIN del_entries}
\* the ids named by the first n statements of the del call
StmtIds(n) == UNION {{del_stmts[j].ids[k] : k \in DOMAIN del_stmts[j].ids} : j \in 1..n}

\* C28: a del call one of whose entries has no id returns Err at once, issues no
\* statement and deletes no row, the rows of its entries that have an id included.
C28_DelNeedsEveryId ==
    (DelCalled /\ NoId \in DelIds) =>
        /\ del_pc = "done"
        /\ del_result = "Err"
        /\ del_stmts = <<>>
        /\ rows = inserted

\* C28 witness: del was given the entry of a row of the table and an entry without
\* id, and failed.
C28_Witness ==
    /\ DelCalled
    /\ NoId \in DelIds
    /\ \E r \in rows : r.id \in DelIds
    /\ del_result = "Err"

\* number of ids in the statements before statement j
StmtOffset(j) ==
    Cardinality({pl \in (1..MaxDelEntries) \X (1..MaxDelEntries) :
                    /\ pl[1] < j
                    /\ pl[1] \in DOMAIN del_stmts
                    /\ pl[2] \in DOMAIN del_stmts[pl[1]].ids})

\* C29: when every entry given to del has an id, the statements del issues name
\* consecutive segments of the ids, each of 1..DeleteChunkSize ids; when del
\* returns Ok every statement succeeded, every id is in exactly one statement and
\* the table has lost exactly the rows whose id was given; when a statement fails
\* del returns Err, the rows of the statements before it are deleted, no later
\* statement is issued and the rows named by no statement issued are unchanged.
C29_DelDeletesInChunks ==
    (DelCalled /\ NoId \notin DelIds) =>
        /\ \A j \in DOMAIN del_stmts :
               /\ Len(del_stmts[j].ids) \in 1..DeleteChunkSize
               /\ \A k \in DOMAIN del_stmts[j].ids :
                      /\ StmtOffset(j) + k \in DOMAIN del_entries
                      /\ del_stmts[j].ids[k] = del_entries[StmtOffset(j) + k].id
               /\ j < Len(del_stmts) => del_stmts[j].outcome = "ok"
        /\ del_result = "Ok" =>
               /\ \A j \in DOMAIN del_stmts : del_stmts[j].outcome = "ok"
               /\ StmtOffset(Len(del_stmts) + 1) = Len(del_entries)
               /\ rows = {r \in inserted : r.id \notin DelIds}
        /\ del_result = "Err" =>
               /\ del_stmts # <<>>
               /\ del_stmts[Len(del_stmts)].outcome = "err"
               /\ \A r \in inserted :
                      /\ r.id \in StmtIds(Len(del_stmts) - 1) => r \notin rows
                      /\ r.id \notin StmtIds(Len(del_stmts)) => r \in rows
        /\ del_result = "pending" => del_pc = "deleting"

\* C29 witness: the first statement of a del call deleted its row, the second one
\* failed, and a row named only by the second one is still in the table.
C29_Witness ==
    /\ DelCalled
    /\ NoId \notin DelIds
    /\ Len(del_stmts) = 2
    /\ del_stmts[1].outcome = "ok"
    /\ del_stmts[2].outcome = "err"
    /\ del_result = "Err"
    /\ \E r \in inserted : r.id \in StmtIds(1) /\ r \notin rows
    /\ \E r \in rows : r.id \in StmtIds(2) /\ r.id \notin StmtIds(1)

\* a get call on the queue has returned
SqGetReturned == sq_get_key # NoKey
\* the ids of the rows the statements of the del call deleted
DeletedIds ==
    UNION {{del_stmts[j].ids[k] : k \in DOMAIN del_stmts[j].ids} :
              j \in {j \in DOMAIN del_stmts : del_stmts[j].outcome = "ok"}}

\* C30: get(key) returns one entry for every row that was inserted with that
\* blobstore_key and not deleted, whatever its blobstore and multiplex, with the
\* fields of the row, and no other entry; every entry get or iter returns has the
\* id of its row, so del accepts it.
C30_GetReturnsTheRowsOfTheKey ==
    /\ SqGetReturned =>
           /\ {e.id : e \in sq_get_result}
                  = {r.id : r \in {r \in inserted : /\ r.blobstore_key = sq_get_key
                                                     /\ r.id \notin DeletedIds}}
           /\ \A e \in sq_get_result :
                  \E r \in inserted :
                      /\ r.id = e.id
                      /\ r.blobstore_key = e.blobstore_key
                      /\ r.blobstore_id = e.blobstore_id
                      /\ r.multiplex_id = e.multiplex_id
                      /\ r.operation_key = e.operation_key
                      /\ r.add_timestamp = e.timestamp.instant
           /\ Cardinality(sq_get_result) = Cardinality({e.id : e \in sq_get_result})
    /\ \A e \in sq_get_result \cup iter_result :
           /\ e.id # NoId
           /\ \E r \in rows : r.id = e.id
           /\ CollectIds(<<e>>).ok

\* C30 witness: two rows of one key were inserted, in different blobstores and
\* multiplexes, one of them was deleted and get returned the other one.
C30_Witness ==
    /\ SqGetReturned
    /\ Cardinality(sq_get_result) = 1
    /\ \E r1, r2 \in inserted :
           /\ r1.blobstore_key = sq_get_key /\ r2.blobstore_key = sq_get_key
           /\ r1.blobstore_id # r2.blobstore_id
           /\ r1.multiplex_id # r2.multiplex_id
           /\ r1.id \in DeletedIds
           /\ \E e \in sq_get_result : e.id = r2.id

(***************************************************************************)
(* Properties of the sync queue as a whole.                                *)
(***************************************************************************)
\* C31: in every step of the queue a row of the table is either a row the table
\* held before, unchanged, or a row just inserted under a new id; a row has
\* the fields it was inserted with; a row that was deleted is not in the table
\* again; a get or iter call changes no row, the steps of add_many and of the
\* worker remove no row, and the steps of del add no row.
C31_RowsNeverMutated ==
    [][/\ inserted \subseteq inserted'
       /\ \A r \in rows' : r \in rows \/ \A q \in inserted : q.id # r.id
       /\ \A r \in rows' : \A q \in inserted' : q.id = r.id => q = r
       /\ \A d \in inserted \ rows : \A r \in rows' : r.id # d.id
       /\ (sq_get_key' # sq_get_key \/ iter_args' # iter_args) => rows' = rows
       /\ workervars' # workervars => rows \subseteq rows'
       /\ delvars' # delvars => rows' \subseteq rows]_vars

\* C31 witness: a row was inserted and deleted, a row inserted later is in the
\* table, and a get call has returned it.
C31_Witness ==
    /\ del_pc = "done"
    /\ \E d \in inserted \ rows : \E r \in rows : r.id > d.id
    /\ sq_get_result # {}

(***************************************************************************)
(* Properties of the configuration.                                        *)
(***************************************************************************)
\* the BlobstoreIds of the configured blobstores are pairwise distinct
UniqueIds == \A i, j \in Slots : i # j => blobstores[i] # blobstores[j]

\* the slots whose blobstore failed the get call (an error or the deadline)
GetFailedSlots == {i \in Slots : get_res[i].tag \in {"Err", "Timeout"}}

\* C32: every multiplexer built by new has pairwise distinct BlobstoreIds, so that
\* the error map of an AllFailed or SomeFailedOthersNone result of get has one
\* entry per blobstore that failed.
C32_BackendIdsUnique ==
    get_pc = "returned" =>
        /\ UniqueIds
        /\ get_result.tag \in {"AllFailed", "SomeFailedOthersNone"} =>
               Cardinality(DOMAIN get_result.errors) = Cardinality(GetFailedSlots)

\* the error map of a returned get call has fewer entries than blobstores failed
C32_MapCollapsed ==
    /\ get_pc = "returned"
    /\ get_result.tag = "SomeFailedOthersNone"
    /\ GetFailedSlots = Slots
    /\ Cardinality(DOMAIN get_result.errors) < Len(blobstores)

(***************************************************************************)
(* The requests get leaves behind.                                         *)
(***************************************************************************)
\* the get call returned the value that won the race
GetWon == get_pc = "returned" /\ get_result.tag = "OkSome"

\* the step in which the reducer of get consumes the value of slot i: the call
\* returns in that step, and the requests still in flight are moved to the
\* detached stream if the call is sampled and dropped if it is not
C33_ReturnStep(i) ==
    (get_pc = "running" /\ get_arrival' = Append(get_arrival, i) /\ get_res'[i].tag = "Some") =>
        /\ GetWon'
        /\ requests' = {}
        /\ \A j \in requests \ {i} :
               IF is_logged
               THEN j \in spawned_requests' /\ get_res'[j] = ReplyPending
               ELSE j \notin spawned_requests' /\ get_res'[j] = ReplyDropped

\* C33: when get returns the winning value it returns in the step that consumed
\* it, without waiting for the other blobstores; if the call is sampled the
\* requests still in flight are detached, none of them is ever dropped and each of
\* them completes with its result or its timeout recorded; if it is not sampled
\* they are dropped and never produce a result.
C33_RemainingRequests ==
    /\ [][\A i \in SlotRange : C33_ReturnStep(i)]_vars
    /\ [](is_logged => GetAnswered({"dropped"}) = {})
    /\ [](~is_logged => spawned_requests = {})
    /\ [][\A j \in SlotRange : get_res[j] = ReplyDropped => get_res'[j] = ReplyDropped]_vars
    /\ [][\A j \in spawned_requests \ spawned_requests' :
              get_res'[j].tag \in {"Some", "None", "Err", "Timeout"}]_vars
    /\ (GetWon /\ is_logged) ~> (GetAnswered({"Some", "None", "Err", "Timeout"}) = Slots)

\* C33 witness: a sampled get over three blobstores returned the first value, and
\* the two requests it left behind completed afterwards, one of them by its deadline.
C33_Witness ==
    /\ GetWon /\ is_logged
    /\ Len(blobstores) = 3 /\ Len(get_arrival) = 1
    /\ spawned_requests = {}
    /\ GetAnswered({"Timeout"}) # {}
    /\ GetAnswered({"Some", "None", "Err", "Timeout"}) = Slots

(***************************************************************************)
(* The early-success path of put.                                          *)
(***************************************************************************)
\* the handlers of call p that were handed over and have not completed
HandlersOpen(p) == {j \in Slots : on_put_res[p][j] \in {"queued", "running"}}

\* the reducer of call p consumes the successful result of slot i, the last put
\* in `puts`, after every other put succeeded and with no error observed
LastPutOk(p, i) ==
    /\ put_pc[p] = "running"
    /\ puts[p] = {i}
    /\ inner_put_res[p][i] = "pending" /\ inner_put_res'[p][i] = "ok"
    /\ \A j \in Slots \ {i} : inner_put_res[p][j] = "ok"
    /\ err_seen[p] = <<>>

C35_PutNeverPanics == \A p \in PutIds : put_result[p] # RetPanic

\* with at least one blobstore configured the same holds
C35_PanicsOnlyWhenEmpty == \A p \in PutIds : put_result[p] = RetPanic => blobstores = <<>>

(***************************************************************************)
(* The write order of a put.                                               *)
(***************************************************************************)
\* the slots whose inner_put of call p has completed
PutsCompleted(p) == {i \in Slots : inner_put_res[p][i] # "pending"}

\* the write orders recorded for call p are those of its completed puts, pairwise
\* distinct, and they are 1..k when k puts have completed
WriteOrdersOf(p) ==
    /\ \A i \in Slots \ PutsCompleted(p) : put_stats[p][i] = 0
    /\ \A i, j \in PutsCompleted(p) : i # j => put_stats[p][i] # put_stats[p][j]
    /\ {put_stats[p][i] : i \in PutsCompleted(p)} = 1..Cardinality(PutsCompleted(p))

\* the put of call p on slot i completes in this step
PutCompletes(p, i) == inner_put_res[p][i] = "pending" /\ inner_put_res'[p][i] # "pending"

\* C36: within one put the k-th blobstore put to complete (with success, an error
\* or a timeout, before or after put returned) is recorded with write order k, so
\* the recorded write orders are pairwise distinct and are 1..N once the N puts
\* have completed; a step of one put leaves the write orders of the others alone.
C36_WriteOrder ==
    /\ [](\A p \in PutIds : WriteOrdersOf(p))
    /\ [][\A p \in PutIds, i \in SlotRange :
              PutCompletes(p, i) =>
                  /\ put_stats'[p][i] = Cardinality(PutsCompleted(p)) + 1
                  /\ \A j \in SlotRange \ {i} : put_stats'[p][j] = put_stats[p][j]
                  /\ \A q \in PutIds \ {p} :
                         put_stats'[q] = put_stats[q] /\ write_order'[q] = write_order[q]]_vars

\* C36 witness: two concurrent puts over two blobstores; the first returned Ok(())
\* and its second put then timed out in the background with write order 2, while
\* the only put of the other call to have completed has write order 1.
C36_Witness ==
    \E p, q \in PutIds :
        /\ p # q
        /\ Len(blobstores) = 2
        /\ put_result[p] = RetOk /\ err_seen[p] = <<>>
        /\ \E i \in Slots : inner_put_res[p][i] = "timeout" /\ put_stats[p][i] = 2
        /\ Cardinality(PutsCompleted(q)) = 1
        /\ \E i \in Slots : put_stats[q][i] = 1

(***************************************************************************)
(* add_many across batches.                                                *)
(***************************************************************************)
\* C37: add_many is all-or-nothing for its caller: when a call returned Err, no
\* entry of the call has been persisted, also when the entries of the call were
\* written by more than one batch.
C37_AddManyAllOrNothing ==
    \A c \in AddIds :
        add_result[c] = "Err" => \A item \in ItemsOf(c) : ~Persisted(item)

\* a call returned Err with one of its entries in a failed batch and another of
\* its entries written to the table by an earlier batch
C37_PartlyPersisted ==
    \E c \in AddIds :
        /\ add_result[c] = "Err"
        /\ \E i1, i2 \in ItemsOf(c) :
               /\ Persisted(i1) /\ Gettable(i1)
               /\ \E pl \in PlacesOf(i2) : batches[pl[1]].outcome = "err"

(***************************************************************************)
(* The reads of a multiplexer without blobstores.                          *)
(***************************************************************************)
\* C38: with no blobstore configured the reads return without error and agree:
\* get returns Ok(None), is_present returns Ok(false) and scrub_get returns
\* Ok(None) as get does, never AllFailed.
C38_EmptyReadsAgree ==
    blobstores = <<>> =>
        /\ get_pc = "returned" => get_result = GetOkNone
        /\ present_pc = "returned" => present_result = PresentOk(FALSE)
        /\ scrub_pc = "returned" => scrub_result = ScrubOk(OptNone)

\* get and is_present do return the absent answer on an empty configuration
C38_EmptyGetAndPresent ==
    blobstores = <<>> =>
        /\ get_pc = "returned" => get_result = GetOkNone
        /\ present_pc = "returned" => present_result = PresentOk(FALSE)

\* scrub_get on an empty configuration returned AllFailed with an empty error map
C38_EmptyScrubFailed ==
    /\ blobstores = <<>>
    /\ scrub_pc = "returned"
    /\ scrub_result = ScrubAllFailed(EmptyMap)

(***************************************************************************)
(* scrub_get: failed blobstores and the order of the answers.              *)
(***************************************************************************)
\* the results of join_all without those of the blobstores that failed: what
\* join_all returns when these blobstores are not configured
SucceededResults == SelectSeq(JoinAllResults(scrub_res), LAMBDA r : r.tag # "Err")

\* C39: scrub_get reports the errors of blobstores only when no blobstore returned
\* a value: when a blobstore returned Some, the result is Ok(Some), SomeMissingItem
\* or ValueMismatch, it is the result scrub_get returns when the failed blobstores
\* are not configured, and no failed blobstore appears in it.
C39_ScrubIgnoresErrors ==
    (scrub_pc = "returned" /\ ScrubSome # {}) =>
        /\ scrub_result.tag \in {"OkSome", "SomeMissingItem", "ValueMismatch"}
        /\ scrub_result = scrub_get_result(SucceededResults, scrub_order)
        /\ scrub_result.errors = EmptyMap
        /\ IdsOf(ScrubFailed) \cap (scrub_result.answered \cup scrub_result.missing) = {}

\* C39 witness: scrub_get over three blobstores returned Ok(Some(value)) although
\* one blobstore returned an error and another did not answer in time.
C39_Witness ==
    /\ scrub_pc = "returned"
    /\ scrub_result.tag = "OkSome"
    /\ ScrubAnswered({"Err"}) # {}
    /\ ScrubAnswered({"Timeout"}) # {}

\* the parts of a result of scrub_get other than the metadata of its value
ScrubClass(r) ==
    [tag |-> r.tag, answered |-> r.answered, missing |-> r.missing, errors |-> r.errors,
     bytes |-> IF r.value.tag = "Some" THEN as_bytes(r.value.value) ELSE ""]

\* C40: the classification of scrub_get is a function of the answers of the
\* blobstores: whatever the order in which the blobstores completed and whatever
\* the order in which the loop examines the successes, the variant of the result,
\* its answered, missing and error sets and the bytes of its value are the same.
C40_ScrubDeterministic ==
    scrub_pc = "returned" =>
        \A order \in IterationOrders(IdsOf(ScrubSome \cup ScrubNone)) :
            ScrubClass(scrub_get_result(JoinAllResults(scrub_res), order))
                = ScrubClass(scrub_result)

\* C40 witness: three blobstores answered with values, the second with other bytes
\* than the first and the third, and the loop examined the third blobstore first.
C40_Witness ==
    /\ scrub_pc = "returned"
    /\ Len(blobstores) = 3 /\ ScrubSome = Slots
    /\ scrub_res[1].value.bytes = scrub_res[3].value.bytes
    /\ scrub_res[1].value.bytes # scrub_res[2].value.bytes
    /\ scrub_order[1] = blobstores[3]
    /\ scrub_result.tag = "ValueMismatch"

====
